---- MODULE Spec2Model ----
(***************************************************************************)
(* A model of rknazo.anura: the SimpleCrypter cipher, the Flag and         *)
(* ValidatableFlag records, the UUID-like codec and the flag generation /  *)
(* reconstruction protocol.                                                *)
(*                                                                         *)
(* Byte strings are sequences of integers in 0..255; text is a sequence of *)
(* one-character strings.  An operation that can raise returns a record    *)
(* whose field err names the exception ("none" when it returns).           *)
(*                                                                         *)
(* Two library functions are not part of the repository and are replaced   *)
(* by stand-ins of the same shape: random.Random (a multiplicative         *)
(* congruential generator instead of the Mersenne Twister; sample and      *)
(* choices follow CPython's algorithms on top of it) and hashlib.sha1 (a   *)
(* 48-bit positional hash whose value changes whenever one input byte      *)
(* changes).                                                               *)
(***************************************************************************)
EXTENDS Integers, Sequences, FiniteSets, TLC

----------------------------------------------------------------------------
(* Bounds of the explored inputs.                                          *)

\* longest key length explored exhaustively
MaxKeyLen == 3
\* longest plaintext / ciphertext handed to encrypt / decrypt
MaxDataLen == 4

\* byte values the inputs are drawn from
DataBytes == {0, 65}
\* passwords (byte strings) the inputs are drawn from
Passwords == {<<112, 119>>, <<1, 2>>, <<0>>}

----------------------------------------------------------------------------
(* Bytes and byte strings.                                                 *)

Byte == 0..255

RECURSIVE Xor(_, _)
\* b ^ key on non-negative integers
Xor(a, b) ==
    IF a = 0 THEN b
    ELSE IF b = 0 THEN a
    ELSE (((a % 2) + (b % 2)) % 2) + 2 * Xor(a \div 2, b \div 2)

\* s[a:b] of Python for 0 <= a (0-based, b exclusive, clipped to len(s))
Slice(s, a, b) ==
    LET hi == IF b > Len(s) THEN Len(s) ELSE b
    IN  IF a >= hi THEN <<>> ELSE [i \in 1..(hi - a) |-> s[a + i]]

\* b"\0" * n
Zeros(n) == [i \in 1..n |-> 0]

RECURSIVE rstrip0(_)
\* bytes.rstrip(b"\0")
rstrip0(s) ==
    IF s = <<>> THEN <<>>
    ELSE IF s[Len(s)] = 0 THEN rstrip0(SubSeq(s, 1, Len(s) - 1))
    ELSE s

RECURSIVE Concat(_)
\* b"".join(seq)
Concat(ss) == IF ss = <<>> THEN <<>> ELSE Head(ss) \o Concat(Tail(ss))

RECURSIVE SumSeq(_)
\* sum(data)
SumSeq(s) == IF s = <<>> THEN 0 ELSE Head(s) + SumSeq(Tail(s))

\* all sequences over S of length 0..n
SeqsUpTo(S, n) == UNION {[1..k -> S] : k \in 0..n}

Range(s) == {s[i] : i \in DOMAIN s}

----------------------------------------------------------------------------
(* random.Random stand-in.                                                 *)

\* modulus and multiplier of the generator (75 is a primitive root of 65537)
RandMod == 65537
RandMul == 75

RECURSIVE SeedFold(_, _)
SeedFold(h, bs) ==
    IF bs = <<>> THEN h
    ELSE SeedFold((h * 257 + Head(bs) + 1) % 65536, Tail(bs))

\* random.Random(password): the generator state after seeding
RandomSeed(password) == SeedFold(1, password) + 1

\* the state after one draw
RandomStep(st) == (st * RandMul) % RandMod

\* rand._randbelow(n) read off the state st
randbelow(st, n) == st % n

RECURSIVE sample_pool(_, _, _)
\* random.sample, pool branch: k draws from pool without replacement
sample_pool(st, pool, k) ==
    IF k = 0 THEN [out |-> <<>>, st |-> st]
    ELSE LET n == Len(pool)
             s1 == RandomStep(st)
             j == randbelow(s1, n) + 1
             pool2 == [i \in 1..(n - 1) |-> IF i = j THEN pool[n] ELSE pool[i]]
             rest == sample_pool(s1, pool2, k - 1)
         IN  [out |-> <<pool[j]>> \o rest.out, st |-> rest.st]

RECURSIVE sample_set_draw(_, _, _)
\* the rejection loop of the set branch: draw until j is not selected
sample_set_draw(st, n, selected) ==
    LET s1 == RandomStep(st)
        j == randbelow(s1, n)
    IN  IF j \in selected THEN sample_set_draw(s1, n, selected)
        ELSE [j |-> j, st |-> s1]

RECURSIVE sample_set(_, _, _, _)
\* random.sample, set branch: k distinct indices of range(n)
sample_set(st, n, k, selected) ==
    IF k = 0 THEN [out |-> <<>>, st |-> st]
    ELSE LET d == sample_set_draw(st, n, selected)
             rest == sample_set(d.st, n, k - 1, selected \cup {d.j})
         IN  [out |-> <<d.j>> \o rest.out, st |-> rest.st]

RECURSIVE Pow4AtLeast(_, _)
\* 4 ** ceil(log(x, 4)): the least power of four >= x, starting from p
Pow4AtLeast(p, x) == IF p >= x THEN p ELSE Pow4AtLeast(4 * p, x)

\* rand.sample(range(n), k=k); err is "ValueError" when k > n
sample_range(st, n, k) ==
    IF k < 0 \/ k > n THEN [err |-> "ValueError", out |-> <<>>, st |-> st]
    ELSE LET setsize == IF k > 5 THEN 21 + Pow4AtLeast(1, 3 * k) ELSE 21
             r == IF n <= setsize
                  THEN sample_pool(st, [i \in 1..n |-> i - 1], k)
                  ELSE sample_set(st, n, k, {})
         IN  [err |-> "none", out |-> r.out, st |-> r.st]

RECURSIVE choices_range(_, _, _)
\* rand.choices(range(n), k=k): k draws with replacement
choices_range(st, n, k) ==
    IF k = 0 THEN <<>>
    ELSE LET s1 == RandomStep(st)
         IN  <<randbelow(s1, n)>> \o choices_range(s1, n, k - 1)

----------------------------------------------------------------------------
(* crypto.py: SimpleCrypter.                                               *)

\* the population the keys are drawn from: range(0xFF)
KeyRange == 255

NoCrypter == [err |-> "unset", keys |-> <<>>, shifts |-> <<>>]

\* SimpleCrypter.__init__ drawing the shifts with replacement (rand.choices)
SimpleCrypter_choices(password, length) ==
    IF length <= 0
    THEN [err |-> "ValueError", keys |-> <<>>, shifts |-> <<>>]
    ELSE IF length > KeyRange
    THEN [err |-> "ValueError", keys |-> <<>>, shifts |-> <<>>]
    ELSE LET st == RandomSeed(password)
             ks == sample_range(st, KeyRange, length)
         IN  [err |-> "none", keys |-> ks.out,
              shifts |-> choices_range(st, length, length)]

\* SimpleCrypter.__init__(password, length)
SimpleCrypter(password, length) ==
    IF length <= 0
    THEN [err |-> "ValueError", keys |-> <<>>, shifts |-> <<>>]
    ELSE IF length > KeyRange
    \* rand.sample(range(0xFF), k=length) raises: sample larger than population
    THEN [err |-> "ValueError", keys |-> <<>>, shifts |-> <<>>]
    ELSE LET sh == sample_range(RandomSeed(password), length, length)
             ks == sample_range(sh.st, KeyRange, length)
         IN  [err |-> "none", keys |-> ks.out, shifts |-> sh.out]

\* SimpleCrypter._apply_to(data)
apply_to(c, data) ==
    LET key_length == Len(c.keys)
    IN  IF Len(data) % key_length # 0
        THEN [err |-> "ValueError", val |-> <<>>]
        ELSE [err |-> "none",
              val |-> [i \in 1..Len(data) |->
                          Xor(data[i], c.keys[((i - 1) % key_length) + 1])]]

\* SimpleCrypter.encrypt padding by a whole key length when the data is
\* already a multiple of it (the outer "% key_length" left out)
encrypt_fullpad(c, data, padding) ==
    LET key_length == Len(c.keys)
        pad == key_length - (Len(data) % key_length)
    IN  IF pad # 0 /\ ~padding
        THEN [err |-> "ValueError", val |-> <<>>]
        ELSE LET encrypted == apply_to(c, data \o Zeros(pad)).val
             IN  [err |-> "none",
                  val |-> [p \in 1..Len(encrypted) |->
                              LET i == ((p - 1) \div key_length) * key_length
                                  j == ((p - 1) % key_length) + 1
                              IN  encrypted[i + c.shifts[j] + 1]]]

\* SimpleCrypter.encrypt(data, padding)
encrypt(c, data, padding) ==
    LET key_length == Len(c.keys)
        pad == (key_length - (Len(data) % key_length)) % key_length
    IN  IF pad # 0 /\ ~padding
        THEN [err |-> "ValueError", val |-> <<>>]
        ELSE LET encrypted == apply_to(c, data \o Zeros(pad)).val
             IN  [err |-> "none",
                  val |-> [p \in 1..Len(encrypted) |->
                              LET i == ((p - 1) \div key_length) * key_length
                                  j == ((p - 1) % key_length) + 1
                              IN  encrypted[i + c.shifts[j] + 1]]]

\* (a, x) < (b, y) as Python orders tuples
PairLess(p, q) == p[1] < q[1] \/ (p[1] = q[1] /\ p[2] < q[2])

\* the gather of encrypt applied a second time instead of being inverted
sorted_zip_gather(shifts, chunk) ==
    [j \in 1..Len(chunk) |-> chunk[shifts[j] + 1]]

\* sorted(zip(shifts, chunk)): the bytes in ascending order of (shift, byte)
sorted_zip(shifts, chunk) ==
    LET n == IF Len(shifts) < Len(chunk) THEN Len(shifts) ELSE Len(chunk)
        pr(i) == <<shifts[i], chunk[i]>>
        \* 0-based position of pair i in the sorted list (ties keep input order)
        rank == [i \in 1..n |-> Cardinality({k \in 1..n :
                    PairLess(pr(k), pr(i)) \/ (pr(k) = pr(i) /\ k < i)})]
    IN  [r \in 1..n |-> chunk[CHOOSE i \in 1..n : rank[i] = r - 1]]

\* SimpleCrypter.decrypt(data, keep_null)
decrypt(c, data, keep_null) ==
    LET key_length == Len(c.keys)
    IN  IF Len(data) % key_length # 0
        THEN [err |-> "ValueError", val |-> <<>>]
        ELSE LET shifted == Concat([g \in 1..(Len(data) \div key_length) |->
                                sorted_zip(c.shifts,
                                    Slice(data, (g - 1) * key_length, g * key_length))])
                 decrypted == apply_to(c, shifted).val
             IN  [err |-> "none",
                  val |-> IF keep_null THEN decrypted ELSE rstrip0(decrypted)]

----------------------------------------------------------------------------
(* flag.py: Flag and ValidatableFlag.                                      *)

\* VALIDATABLE_FLAG_SIGNATURE
VALIDATABLE_FLAG_SIGNATURE == 250

\* the fields of a dataclass instance; err # "none" when construction raised
FlagRec(cls, err, ed, pp, ck, id, eh, sig) ==
    [cls |-> cls, err |-> err, encrypted_data |-> ed, partial_password |-> pp,
     decrypted_data_checksum |-> ck, challenge_id |-> id,
     expected_hash |-> eh, signature |-> sig]

NoFlag == FlagRec("none", "unset", <<>>, <<>>, <<>>, 0, <<>>, 0)

\* Flag.__post_init__: the exception it raises, "none" when it returns
Flag_post_init(ed, pp, ck, id) ==
    IF Len(ed) # 4 THEN "ValueError"
    ELSE IF Len(pp) # 2 THEN "ValueError"
    ELSE IF Len(ck) # 2 THEN "ValueError"
    ELSE IF id < 0 THEN "ValueError"
    ELSE IF id > 255 THEN "ValueError"
    ELSE "none"

\* Flag(encrypted_data=ed, partial_password=pp, decrypted_data_checksum=ck,
\*      challenge_id=id)
Flag(ed, pp, ck, id) ==
    FlagRec("Flag", Flag_post_init(ed, pp, ck, id), ed, pp, ck, id, <<>>, 0)

\* ValidatableFlag._identity(flag)
identity(flag) ==
    flag.encrypted_data \o flag.partial_password \o <<flag.challenge_id>>

\* hashlib.sha1(data).digest() stand-in: 20 bytes, each a sum of the input
\* bytes with odd weights, so changing one input byte changes every byte
sha1_digest(data) ==
    [k \in 1..20 |->
        (SumSeq([i \in 1..Len(data) |-> (2 * (i + k) + 1) * (data[i] + 1)])
            + 17 * k) % 256]

\* ValidatableFlag.hash(flag)
hash(flag) == Slice(sha1_digest(identity(flag)), 0, 6)

\* ValidatableFlag.__post_init__ checking the signature before the widths
ValidatableFlag_post_init_sigfirst(ed, pp, ck, id, eh, sig) ==
    IF sig # VALIDATABLE_FLAG_SIGNATURE THEN "ValidationFailed"
    ELSE LET base == Flag_post_init(ed, pp, ck, id)
         IN  IF base # "none" THEN base
             ELSE IF Len(eh) # 6 THEN "ValueError"
             ELSE IF hash(Flag(ed, pp, ck, id)) # eh THEN "ValidationFailed"
             ELSE "none"

\* ValidatableFlag.__post_init__ without the signature check
ValidatableFlag_post_init_nosig(ed, pp, ck, id, eh, sig) ==
    LET base == Flag_post_init(ed, pp, ck, id)
    IN  IF base # "none" THEN base
        ELSE IF Len(eh) # 6 THEN "ValueError"
        ELSE IF hash(Flag(ed, pp, ck, id)) # eh THEN "ValidationFailed"
        ELSE "none"

\* ValidatableFlag.__post_init__: the exception it raises, "none" otherwise
ValidatableFlag_post_init(ed, pp, ck, id, eh, sig) ==
    LET base == Flag_post_init(ed, pp, ck, id)
    IN  IF base # "none" THEN base
        ELSE IF Len(eh) # 6 THEN "ValueError"
        ELSE IF sig # VALIDATABLE_FLAG_SIGNATURE THEN "ValidationFailed"
        ELSE IF hash(Flag(ed, pp, ck, id)) # eh THEN "ValidationFailed"
        ELSE "none"

\* ValidatableFlag(..., expected_hash=eh, signature=sig)
ValidatableFlag(ed, pp, ck, id, eh, sig) ==
    FlagRec("ValidatableFlag", ValidatableFlag_post_init(ed, pp, ck, id, eh, sig),
            ed, pp, ck, id, eh, sig)

\* ValidatableFlag.from_general with partial_password and
\* decrypted_data_checksum passed in each other's place
from_general_swapped(flag) ==
    ValidatableFlag(flag.encrypted_data, flag.decrypted_data_checksum,
                    flag.partial_password, flag.challenge_id,
                    hash(flag), VALIDATABLE_FLAG_SIGNATURE)

\* ValidatableFlag.from_general(flag)
from_general(flag) ==
    ValidatableFlag(flag.encrypted_data, flag.partial_password,
                    flag.decrypted_data_checksum, flag.challenge_id,
                    hash(flag), VALIDATABLE_FLAG_SIGNATURE)

\* ValidatableFlag.__as_uuid__(self)
as_uuid(flag) ==
    <<flag.encrypted_data, flag.partial_password, flag.decrypted_data_checksum,
      <<flag.signature, flag.challenge_id>>, flag.expected_hash>>

\* ValidatableFlag.__from_uuid__(uuid)
from_uuid(uuid) ==
    IF Len(uuid) # 5 \/ Len(uuid[4]) # 2
    THEN FlagRec("ValidatableFlag", "ValueError", <<>>, <<>>, <<>>, 0, <<>>, 0)
    ELSE ValidatableFlag(uuid[1], uuid[2], uuid[3], uuid[4][2], uuid[5],
                         uuid[4][1])

\* the dataclass __eq__ of Flag and ValidatableFlag: equal classes and fields
DataclassEq(a, b) ==
    /\ a.cls = b.cls
    /\ a.encrypted_data = b.encrypted_data
    /\ a.partial_password = b.partial_password
    /\ a.decrypted_data_checksum = b.decrypted_data_checksum
    /\ a.challenge_id = b.challenge_id
    /\ a.cls = "ValidatableFlag" =>
          (a.expected_hash = b.expected_hash /\ a.signature = b.signature)

----------------------------------------------------------------------------
(* uuid.py: the UUID-like codec.                                           *)

\* the digits bytes.hex writes
HexLower == <<"0", "1", "2", "3", "4", "5", "6", "7", "8", "9",
              "a", "b", "c", "d", "e", "f">>
HexUpper == <<"0", "1", "2", "3", "4", "5", "6", "7", "8", "9",
              "A", "B", "C", "D", "E", "F">>

\* string.hexdigits
hexdigits == Range(HexLower) \cup Range(HexUpper)

\* one byte written without zero padding ("%x" in place of "%02x")
hex_byte_nopad(b) ==
    IF b < 16 THEN <<HexLower[b + 1]>>
    ELSE <<HexLower[(b \div 16) + 1], HexLower[(b % 16) + 1]>>

\* one byte as bytes.hex writes it
hex_byte(b) ==
    <<HexLower[(b \div 16) + 1], HexLower[(b % 16) + 1]>>

\* bytes.hex(block)
bytes_hex(block) == Concat([i \in 1..Len(block) |-> hex_byte(block[i])])

\* the value of a hex digit of either case
hex_value(c) ==
    IF c \in Range(HexLower)
    THEN (CHOOSE i \in 1..16 : HexLower[i] = c) - 1
    ELSE (CHOOSE i \in 1..16 : HexUpper[i] = c) - 1

\* bytes.fromhex(text) for text of hex digits of even length
bytes_fromhex(text) ==
    [i \in 1..(Len(text) \div 2) |->
        16 * hex_value(text[2 * i - 1]) + hex_value(text[2 * i])]

RECURSIVE join(_, _)
\* sep.join(parts)
join(sep, parts) ==
    IF parts = <<>> THEN <<>>
    ELSE IF Len(parts) = 1 THEN parts[1]
    ELSE parts[1] \o <<sep>> \o join(sep, Tail(parts))

RECURSIVE split(_, _)
\* text.split(sep)
split(text, sep) ==
    IF \A i \in 1..Len(text) : text[i] # sep THEN <<text>>
    ELSE LET k == CHOOSE i \in 1..Len(text) :
                     text[i] = sep /\ \A j \in 1..(i - 1) : text[j] # sep
         IN  <<SubSeq(text, 1, k - 1)>> \o split(SubSeq(text, k + 1, Len(text)), sep)

\* list(map(len, blocks))
Lens(blocks) == [i \in 1..Len(blocks) |-> Len(blocks[i])]

\* make_uuid_like(blocks)
make_uuid_like(blocks) ==
    IF Lens(blocks) # <<4, 2, 2, 2, 6>>
    THEN [err |-> "ValueError", val |-> <<>>]
    ELSE [err |-> "none",
          val |-> join("-", [i \in 1..Len(blocks) |-> bytes_hex(blocks[i])])]

\* parse_uuid_like accepting lowercase hex digits only
parse_uuid_like_lower(uuid) ==
    LET bs == split(uuid, "-")
    IN  IF Len(bs) # 5 THEN [err |-> "ValueError", val |-> <<>>]
        ELSE IF Lens(bs) # <<8, 4, 4, 4, 12>>
        THEN [err |-> "ValueError", val |-> <<>>]
        ELSE IF \E i \in 1..5 : \E j \in 1..Len(bs[i]) :
                    bs[i][j] \notin Range(HexLower)
        THEN [err |-> "ValueError", val |-> <<>>]
        ELSE [err |-> "none", val |-> [i \in 1..5 |-> bytes_fromhex(bs[i])]]

\* parse_uuid_like(uuid)
parse_uuid_like(uuid) ==
    LET blocks == split(uuid, "-")
    IN  IF Len(blocks) # 5 THEN [err |-> "ValueError", val |-> <<>>]
        ELSE IF Lens(blocks) # <<8, 4, 4, 4, 12>>
        THEN [err |-> "ValueError", val |-> <<>>]
        ELSE IF \E i \in 1..5 : \E j \in 1..Len(blocks[i]) :
                    blocks[i][j] \notin hexdigits
        THEN [err |-> "ValueError", val |-> <<>>]
        ELSE [err |-> "none",
              val |-> [i \in 1..5 |-> bytes_fromhex(blocks[i])]]

\* translate_into_uuid_like(obj)
translate_into_uuid_like(obj) == make_uuid_like(as_uuid(obj))

\* translate_from_uuid_like(ValidatableFlag, uuid)
translate_from_uuid_like(uuid) ==
    LET blocks == parse_uuid_like(uuid)
    IN  IF blocks.err # "none"
        THEN FlagRec("ValidatableFlag", blocks.err, <<>>, <<>>, <<>>, 0, <<>>, 0)
        ELSE from_uuid(blocks.val)

----------------------------------------------------------------------------
(* utils.py: generation and reconstruction of flags.                       *)

\* _derive_key(length, password)
derive_key(length, password) ==
    choices_range(RandomSeed(password), KeyRange, length * 2)

\* _fix_data(data, size)
fix_data(data, size) ==
    IF \E i \in 1..Len(data) : Len(data[i]) > size
    THEN [err |-> "ValueError", val |-> <<>>]
    ELSE [err |-> "none",
          val |-> [i \in 1..Len(data) |->
                      data[i] \o Zeros((size - (Len(data[i]) % size)) % size)]]

RECURSIVE Pow(_, _)
Pow(b, e) == IF e = 0 THEN 1 ELSE b * Pow(b, e - 1)

\* checksum(data, length): (sum(data) & mask).to_bytes(length, "big")
checksum(data, length) ==
    LET result == SumSeq(data) % Pow(256, length)
    IN  [i \in 1..length |-> (result \div Pow(256, length - i)) % 256]

NoFlags == [err |-> "unset", flags |-> <<>>, password |-> <<>>, crypt |-> NoCrypter]

\* generate_flags without the check for zero bytes in the blocks
generate_flags_nozero(data, password) ==
    LET fixed == fix_data(data, 4)
        merged == Concat(fixed.val)
        key == derive_key(Len(fixed.val), password)
        c == SimpleCrypter(key, Len(merged))
        encrypted == encrypt(c, merged, TRUE).val
        flags == [i \in 1..Len(fixed.val) |->
                     Flag(Slice(encrypted, 4 * (i - 1), 4 * i),
                          Slice(key, 2 * (i - 1), 2 * i),
                          checksum(fixed.val[i], 2),
                          i - 1)]
    IN  IF fixed.err # "none" \/ c.err # "none"
        THEN [err |-> "ValueError", flags |-> <<>>, password |-> <<>>,
              crypt |-> NoCrypter]
        ELSE IF \E i \in 1..Len(flags) : flags[i].err # "none"
        THEN [err |-> "ValueError", flags |-> <<>>, password |-> <<>>,
              crypt |-> NoCrypter]
        ELSE [err |-> "none", flags |-> flags, password |-> key, crypt |-> c]

\* generate_flags leaving the keystream where it is after each flag
\* (password = password[2:] missing)
generate_flags_samekey(data, password) ==
    IF \E i \in 1..Len(data) : 0 \in Range(data[i])
    THEN [err |-> "ValueError", flags |-> <<>>, password |-> <<>>, crypt |-> NoCrypter]
    ELSE LET fixed == fix_data(data, 4)
             merged == Concat(fixed.val)
             key == derive_key(Len(fixed.val), password)
             c == SimpleCrypter(key, Len(merged))
             encrypted == encrypt(c, merged, TRUE).val
             flags == [i \in 1..Len(fixed.val) |->
                          Flag(Slice(encrypted, 4 * (i - 1), 4 * i),
                               Slice(key, 0, 2),
                               checksum(fixed.val[i], 2),
                               i - 1)]
         IN  IF fixed.err # "none" \/ c.err # "none"
             THEN [err |-> "ValueError", flags |-> <<>>, password |-> <<>>,
                   crypt |-> NoCrypter]
             ELSE [err |-> "none", flags |-> flags, password |-> key, crypt |-> c]

\* generate_flags(data, password); password and crypt are the locals of the
\* call (the derived keystream and the cipher built from it)
generate_flags(data, password) ==
    IF \E i \in 1..Len(data) : 0 \in Range(data[i])
    THEN [err |-> "ValueError", flags |-> <<>>, password |-> <<>>, crypt |-> NoCrypter]
    ELSE LET fixed == fix_data(data, 4)
             merged == Concat(fixed.val)
             key == derive_key(Len(fixed.val), password)
             c == SimpleCrypter(key, Len(merged))
             encrypted == encrypt(c, merged, TRUE).val
             flags == [i \in 1..Len(fixed.val) |->
                          Flag(Slice(encrypted, 4 * (i - 1), 4 * i),
                               Slice(key, 2 * (i - 1), 2 * i),
                               checksum(fixed.val[i], 2),
                               i - 1)]
         IN  IF fixed.err # "none" \/ c.err # "none"
             THEN [err |-> "ValueError", flags |-> <<>>, password |-> <<>>,
                   crypt |-> NoCrypter]
             ELSE IF \E i \in 1..Len(flags) : flags[i].err # "none"
             THEN [err |-> "ValueError", flags |-> <<>>, password |-> <<>>,
                   crypt |-> NoCrypter]
             ELSE [err |-> "none", flags |-> flags, password |-> key, crypt |-> c]

\* make_uuid_like_flag(flag)
make_uuid_like_flag(flag) ==
    IF flag.cls # "ValidatableFlag"
    THEN translate_into_uuid_like(from_general(flag))
    ELSE translate_into_uuid_like(flag)

\* validate_uuid_like_flag(flag)
validate_uuid_like_flag(flag) == translate_from_uuid_like(flag)

\* the flags in the order they were passed (the sort left out)
sorted_by_challenge_id_unsorted(flags) == flags

\* sorted(flags, key=lambda flag: flag.challenge_id): a stable sort
sorted_by_challenge_id(flags) ==
    LET n == Len(flags)
        rank == [i \in 1..n |-> Cardinality({k \in 1..n :
                    \/ flags[k].challenge_id < flags[i].challenge_id
                    \/ (flags[k].challenge_id = flags[i].challenge_id /\ k < i)})]
    IN  [r \in 1..n |-> flags[CHOOSE i \in 1..n : rank[i] = r - 1]]

NoBlocks == [err |-> "unset", val |-> <<>>, password |-> <<>>, crypt |-> NoCrypter]

\* decrypt_flags taking the flags in the order they were passed
decrypt_flags_unsorted(flagsIn) ==
    LET flags == flagsIn
        encrypted == Concat([i \in 1..Len(flags) |-> flags[i].encrypted_data])
        password == Concat([i \in 1..Len(flags) |-> flags[i].partial_password])
        c == SimpleCrypter(password, Len(encrypted))
        decrypted == decrypt(c, encrypted, FALSE).val
        block(i) == Slice(decrypted, 4 * (i - 1), 4 * i)
    IN  IF c.err # "none"
        THEN [err |-> "ValueError", val |-> <<>>, password |-> password, crypt |-> c]
        ELSE IF \E i \in 1..Len(flags) :
                    flags[i].decrypted_data_checksum # checksum(block(i), 2)
        THEN [err |-> "ValidationFailed", val |-> <<>>,
              password |-> password, crypt |-> c]
        ELSE [err |-> "none",
              val |-> [i \in 1..Len(flags) |-> rstrip0(block(i))],
              password |-> password, crypt |-> c]

\* decrypt_flags comparing the checksum of the first flag only
decrypt_flags_firstonly(flagsIn) ==
    LET flags == sorted_by_challenge_id(flagsIn)
        encrypted == Concat([i \in 1..Len(flags) |-> flags[i].encrypted_data])
        password == Concat([i \in 1..Len(flags) |-> flags[i].partial_password])
        c == SimpleCrypter(password, Len(encrypted))
        decrypted == decrypt(c, encrypted, FALSE).val
        block(i) == Slice(decrypted, 4 * (i - 1), 4 * i)
    IN  IF c.err # "none"
        THEN [err |-> "ValueError", val |-> <<>>, password |-> password, crypt |-> c]
        ELSE IF flags[1].decrypted_data_checksum # checksum(block(1), 2)
        THEN [err |-> "ValidationFailed", val |-> <<>>,
              password |-> password, crypt |-> c]
        ELSE [err |-> "none",
              val |-> [i \in 1..Len(flags) |-> rstrip0(block(i))],
              password |-> password, crypt |-> c]

\* decrypt_flags returning the blocks without comparing their checksums
decrypt_flags_nocheck(flagsIn) ==
    LET flags == sorted_by_challenge_id(flagsIn)
        encrypted == Concat([i \in 1..Len(flags) |-> flags[i].encrypted_data])
        password == Concat([i \in 1..Len(flags) |-> flags[i].partial_password])
        c == SimpleCrypter(password, Len(encrypted))
        decrypted == decrypt(c, encrypted, FALSE).val
        block(i) == Slice(decrypted, 4 * (i - 1), 4 * i)
    IN  IF c.err # "none"
        THEN [err |-> "ValueError", val |-> <<>>, password |-> password, crypt |-> c]
        ELSE [err |-> "none",
              val |-> [i \in 1..Len(flags) |-> rstrip0(block(i))],
              password |-> password, crypt |-> c]

\* decrypt_flags(flags); password and crypt are the locals of the call
decrypt_flags(flagsIn) ==
    LET flags == sorted_by_challenge_id(flagsIn)
        encrypted == Concat([i \in 1..Len(flags) |-> flags[i].encrypted_data])
        password == Concat([i \in 1..Len(flags) |-> flags[i].partial_password])
        c == SimpleCrypter(password, Len(encrypted))
        decrypted == decrypt(c, encrypted, FALSE).val
        block(i) == Slice(decrypted, 4 * (i - 1), 4 * i)
    IN  IF c.err # "none"
        THEN [err |-> "ValueError", val |-> <<>>, password |-> password, crypt |-> c]
        ELSE IF \E i \in 1..Len(flags) :
                    flags[i].decrypted_data_checksum # checksum(block(i), 2)
        THEN [err |-> "ValidationFailed", val |-> <<>>,
              password |-> password, crypt |-> c]
        ELSE [err |-> "none",
              val |-> [i \in 1..Len(flags) |-> rstrip0(block(i))],
              password |-> password, crypt |-> c]

Wrapper == <<"f", "l", "a", "g", "{">>

\* wrap_flag(flag)
wrap_flag(flag) ==
    LET uuid_like == make_uuid_like_flag(flag)
    IN  IF uuid_like.err # "none" THEN uuid_like
        ELSE [err |-> "none", val |-> Wrapper \o uuid_like.val \o <<"}">>]

\* unwrap_flag removing the prefix only (flag[5:])
unwrap_flag_keepbrace(flag) ==
    IF ~(Slice(flag, 0, 5) = Wrapper /\ flag # <<>> /\ flag[Len(flag)] = "}")
    THEN FlagRec("ValidatableFlag", "ValueError", <<>>, <<>>, <<>>, 0, <<>>, 0)
    ELSE validate_uuid_like_flag(Slice(flag, 5, Len(flag)))

\* unwrap_flag(flag)
unwrap_flag(flag) ==
    IF ~(Slice(flag, 0, 5) = Wrapper /\ flag # <<>> /\ flag[Len(flag)] = "}")
    THEN FlagRec("ValidatableFlag", "ValueError", <<>>, <<>>, <<>>, 0, <<>>, 0)
    ELSE validate_uuid_like_flag(Slice(flag, 5, Len(flag) - 1))

----------------------------------------------------------------------------
(* State.                                                                  *)

VARIABLES
    crypt,      \* the SimpleCrypter instance: [err, keys, shifts]
    cArgs,      \* the (password, length) it was constructed from
    enc,        \* the last encrypt call: its arguments and outcome
    dec,        \* the last decrypt call: its arguments and outcome
    flag,       \* the Flag last constructed
    vflag,      \* ValidatableFlag.from_general(flag)
    blocks,     \* the UUID blocks of vflag, possibly with bytes replaced
    tampers,    \* how many bytes of blocks were replaced
    parsed,     \* ValidatableFlag.__from_uuid__(blocks)
    text,       \* the text last produced by make_uuid_like or wrap_flag
    decoded,    \* what parse_uuid_like or unwrap_flag made of text
    gen,        \* the last generate_flags call: its arguments and outcome
    rec,        \* the last decrypt_flags call: its arguments and outcome
    file,       \* the flag file of the console: whether it exists, its text
    saved,      \* the last _write_flags call: the flags it was given
    loaded,     \* the last _load_flags call since the file was written: its outcome
    console,    \* the last console operation and its outcome
    asked,      \* the line last typed to add_flag and the answer the player
                \* has for the replacement question, where they are recorded
    running,    \* Runner._running
    processes,  \* Runner._processes: each process named by its thread's id
    threads,    \* Runner._threads: the thread ids, in list order
    thr,        \* the supervisor threads ever started: program, position,
                \* the status of the process it holds, how many it started
    main,       \* the caller of run() and stop(): its position in the call
    lastCall,   \* the last run() or stop() call that returned or raised, if
                \* no call began since
    history,    \* the run() and stop() calls that succeeded, in order
    required,   \* Package.required_packages() of every package
    installed_packages,  \* Builder._installed_packages
    installs,   \* how many times install() of each package was invoked
    calls,      \* how many _install_packages calls the builder's user made
    frames      \* the _install_packages calls in progress, innermost last:
                \* the packages the loop has yet to take, and the package of
                \* the turn that is under way (0: between turns)

cryptVars == <<crypt, cArgs, enc, dec>>
flagVars == <<flag, vflag, blocks, tampers, parsed, text, decoded>>
protoVars == <<gen, rec>>
storeVars == <<file, saved, loaded, console, asked>>
runVars == <<running, processes, threads, thr, main, lastCall, history>>
pkgVars == <<required, installed_packages, installs, calls, frames>>

vars == <<cryptVars, flagVars, protoVars, storeVars, runVars, pkgVars>>

NoArgs == [password |-> <<>>, length |-> 0]
NoEnc == [done |-> FALSE, data |-> <<>>, padding |-> FALSE,
          err |-> "none", val |-> <<>>]
NoDec == [done |-> FALSE, src |-> "none", data |-> <<>>, keep_null |-> FALSE,
          err |-> "none", val |-> <<>>]

\* key lengths handed to the constructor; the last exceeds range(0xFF)
Lengths == (-1..MaxKeyLen) \cup {KeyRange + 1}

\* byte strings handed to encrypt and decrypt
DataSet == SeqsUpTo(DataBytes, MaxDataLen)

NoText == [kind |-> "none", src |-> "none", err |-> "none", val |-> <<>>]
NoDecoded == [kind |-> "none", err |-> "none", blocks |-> <<>>, flag |-> NoFlag]
NoGen == [done |-> FALSE, data |-> <<>>, password |-> <<>>, out |-> NoFlags]
NoRec == [done |-> FALSE, order |-> <<>>, flags |-> <<>>, out |-> NoBlocks]
NoFile == [exists |-> FALSE, content |-> <<>>]
NoSaved == [done |-> FALSE, flags |-> <<>>]
NoLoaded == [done |-> FALSE, err |-> "none", flags |-> <<>>]
NoConsole == [op |-> "none", outcome |-> "none", err |-> "none", result |-> <<>>]
NoAsked == [input |-> <<>>, confirm |-> FALSE]
NoMain == [pc |-> "idle", entrypoint |-> FALSE, i |-> 0]
NoCall == [op |-> "none", err |-> "none"]

\* the cipher, flag and protocol variables before any call
InitAnura ==
    /\ crypt = NoCrypter
    /\ cArgs = NoArgs
    /\ enc = NoEnc
    /\ dec = NoDec
    /\ flag = NoFlag
    /\ vflag = NoFlag
    /\ blocks = <<>>
    /\ tampers = 0
    /\ parsed = NoFlag
    /\ text = NoText
    /\ decoded = NoDecoded
    /\ gen = NoGen
    /\ rec = NoRec

\* Interactive(stdscr, file) for a file that does not exist
InitStore ==
    /\ file = NoFile
    /\ saved = NoSaved
    /\ loaded = NoLoaded
    /\ console = NoConsole
    /\ asked = NoAsked

\* Runner.__init__: no process, no thread, not running
InitRunner ==
    /\ running = FALSE
    /\ processes = <<>>
    /\ threads = <<>>
    /\ thr = <<>>
    /\ main = NoMain
    /\ lastCall = NoCall
    /\ history = <<>>

\* the packages of the dependency graphs
MaxPackages == 3

Packages == 1..MaxPackages

\* Builder.__init__ and Configurator.__init__: nothing installed, no call
\* made
InitInstalled ==
    /\ installed_packages = {}
    /\ installs = [p \in Packages |-> 0]
    /\ calls = 0
    /\ frames = <<>>

\* a builder whose packages require nothing
InitBuilder ==
    /\ required = [p \in Packages |-> {}]
    /\ InitInstalled

\* the state before any call
Init == InitAnura /\ InitStore /\ InitRunner /\ InitBuilder

\* crypt = SimpleCrypter(password, length): the instance a behaviour follows
New(password, length) ==
    /\ crypt.err = "unset"
    /\ crypt' = SimpleCrypter(password, length)
    /\ cArgs' = [password |-> password, length |-> length]
    /\ enc' = NoEnc
    /\ dec' = NoDec
    /\ UNCHANGED <<flagVars, protoVars>>
    /\ UNCHANGED <<storeVars, runVars, pkgVars>>

\* crypt.encrypt(data, padding)
Encrypt(data, padding) ==
    /\ crypt.err = "none"
    /\ LET r == encrypt(crypt, data, padding)
       IN  enc' = [done |-> TRUE, data |-> data, padding |-> padding,
                   err |-> r.err, val |-> r.val]
    /\ dec' = NoDec
    /\ UNCHANGED <<crypt, cArgs, flagVars, protoVars>>
    /\ UNCHANGED <<storeVars, runVars, pkgVars>>

\* crypt.decrypt(c, keep_null) for the ciphertext c the last encrypt returned
DecryptCipher(keep_null) ==
    /\ crypt.err = "none"
    /\ enc.done /\ enc.err = "none"
    /\ LET r == decrypt(crypt, enc.val, keep_null)
       IN  dec' = [done |-> TRUE, src |-> "cipher", data |-> enc.val,
                   keep_null |-> keep_null, err |-> r.err, val |-> r.val]
    /\ UNCHANGED <<crypt, cArgs, enc, flagVars, protoVars>>
    /\ UNCHANGED <<storeVars, runVars, pkgVars>>

\* crypt.decrypt(data, keep_null) for arbitrary data
DecryptData(data, keep_null) ==
    /\ crypt.err = "none"
    /\ LET r == decrypt(crypt, data, keep_null)
       IN  dec' = [done |-> TRUE, src |-> "data", data |-> data,
                   keep_null |-> keep_null, err |-> r.err, val |-> r.val]
    /\ enc' = NoEnc
    /\ UNCHANGED <<crypt, cArgs, flagVars, protoVars>>
    /\ UNCHANGED <<storeVars, runVars, pkgVars>>

CryptNext ==
    \/ \E p \in Passwords, l \in Lengths : New(p, l)
    \/ \E d \in DataSet, padding \in BOOLEAN : Encrypt(d, padding)
    \/ \E k \in BOOLEAN : DecryptCipher(k)
    \/ \E d \in DataSet, k \in BOOLEAN : DecryptData(d, k)

SpecCrypt == Init /\ [][CryptNext]_vars

----------------------------------------------------------------------------
(* Flag records and their text form: operations.                           *)

\* bytes a block can be replaced with
TamperBytes == {0, 255}
\* how many bytes of a serialized flag are replaced
MaxTamper == 1

\* field values handed to the Flag constructor
EncryptedDatas == {<<1, 2, 3, 4>>, <<0, 171, 0, 0>>, <<1, 2, 3>>}
PartialPasswords == {<<9, 8>>}
Checksums == {<<1, 10>>, <<0, 0>>}
ChallengeIds == {-1, 0, 255, 256}

\* the 16 bytes of five UUID blocks, in order
FlatBytes(bs) == Concat(bs)

\* the blocks with the byte at position pos (1..16) replaced by b
ReplaceByte(bs, pos, b) ==
    LET off(i) == Len(Concat(SubSeq(bs, 1, i - 1)))
    IN  [i \in 1..Len(bs) |->
            [j \in 1..Len(bs[i]) |-> IF off(i) + j = pos THEN b ELSE bs[i][j]]]

\* flag = Flag(encrypted_data=ed, partial_password=pp,
\*             decrypted_data_checksum=ck, challenge_id=id)
MakeFlag(ed, pp, ck, id) ==
    /\ flag.cls = "none"
    /\ flag' = Flag(ed, pp, ck, id)
    /\ vflag' = NoFlag
    /\ blocks' = <<>>
    /\ tampers' = 0
    /\ parsed' = NoFlag
    /\ text' = NoText
    /\ decoded' = NoDecoded
    /\ UNCHANGED <<cryptVars, protoVars>>
    /\ UNCHANGED <<storeVars, runVars, pkgVars>>

\* vflag = ValidatableFlag.from_general(flag)
FromGeneral ==
    /\ flag.err = "none"
    /\ vflag.cls = "none"
    /\ vflag' = from_general(flag)
    /\ UNCHANGED <<flag, blocks, tampers, parsed, text, decoded>>
    /\ UNCHANGED <<cryptVars, protoVars>>
    /\ UNCHANGED <<storeVars, runVars, pkgVars>>

\* blocks = vflag.__as_uuid__()
AsUuid ==
    /\ vflag.cls # "none" /\ vflag.err = "none"
    /\ blocks' = as_uuid(vflag)
    /\ tampers' = 0
    /\ parsed' = NoFlag
    /\ text' = NoText
    /\ decoded' = NoDecoded
    /\ UNCHANGED <<flag, vflag>>
    /\ UNCHANGED <<cryptVars, protoVars>>
    /\ UNCHANGED <<storeVars, runVars, pkgVars>>

\* one byte of the serialized flag is replaced by a different value
TamperByte(pos, b) ==
    /\ blocks # <<>>
    /\ tampers < MaxTamper
    /\ FlatBytes(blocks)[pos] # b
    /\ blocks' = ReplaceByte(blocks, pos, b)
    /\ tampers' = tampers + 1
    /\ parsed' = NoFlag
    /\ text' = NoText
    /\ decoded' = NoDecoded
    /\ UNCHANGED <<flag, vflag>>
    /\ UNCHANGED <<cryptVars, protoVars>>
    /\ UNCHANGED <<storeVars, runVars, pkgVars>>

\* parsed = ValidatableFlag.__from_uuid__(blocks)
FromUuid ==
    /\ blocks # <<>>
    /\ parsed.cls = "none"
    /\ parsed' = from_uuid(blocks)
    /\ UNCHANGED <<flag, vflag, blocks, tampers, text, decoded>>
    /\ UNCHANGED <<cryptVars, protoVars>>
    /\ UNCHANGED <<storeVars, runVars, pkgVars>>

\* text = make_uuid_like(blocks)
MakeUuidLike ==
    /\ blocks # <<>>
    /\ text.kind # "uuid"
    /\ LET r == make_uuid_like(blocks)
       IN  text' = [kind |-> "uuid", src |-> "blocks", err |-> r.err, val |-> r.val]
    /\ decoded' = NoDecoded
    /\ UNCHANGED <<flag, vflag, blocks, tampers, parsed>>
    /\ UNCHANGED <<cryptVars, protoVars>>
    /\ UNCHANGED <<storeVars, runVars, pkgVars>>

\* decoded = parse_uuid_like(text)
ParseUuidLike ==
    /\ text.kind = "uuid" /\ text.err = "none"
    /\ decoded.kind = "none"
    /\ LET r == parse_uuid_like(text.val)
       IN  decoded' = [kind |-> "parse", err |-> r.err, blocks |-> r.val,
                       flag |-> NoFlag]
    /\ UNCHANGED <<flag, vflag, blocks, tampers, parsed, text>>
    /\ UNCHANGED <<cryptVars, protoVars>>
    /\ UNCHANGED <<storeVars, runVars, pkgVars>>

\* text = wrap_flag(f) for f the plain flag (src = "flag") or the
\* validatable flag (src = "vflag")
WrapFlag(src) ==
    /\ \/ src = "flag" /\ flag.err = "none"
       \/ src = "vflag" /\ vflag.cls # "none" /\ vflag.err = "none"
    /\ text.kind # "wrapped" \/ text.src # src
    /\ LET r == wrap_flag(IF src = "flag" THEN flag ELSE vflag)
       IN  text' = [kind |-> "wrapped", src |-> src, err |-> r.err, val |-> r.val]
    /\ decoded' = NoDecoded
    /\ UNCHANGED <<flag, vflag, blocks, tampers, parsed>>
    /\ UNCHANGED <<cryptVars, protoVars>>
    /\ UNCHANGED <<storeVars, runVars, pkgVars>>

\* decoded = unwrap_flag(text)
UnwrapFlag ==
    /\ text.kind = "wrapped" /\ text.err = "none"
    /\ decoded.kind = "none"
    /\ decoded' = [kind |-> "unwrap", err |-> "none", blocks |-> <<>>,
                   flag |-> unwrap_flag(text.val)]
    /\ UNCHANGED <<flag, vflag, blocks, tampers, parsed, text>>
    /\ UNCHANGED <<cryptVars, protoVars>>
    /\ UNCHANGED <<storeVars, runVars, pkgVars>>

FlagNext ==
    \/ \E ed \in EncryptedDatas, pp \in PartialPasswords,
          ck \in Checksums, id \in ChallengeIds : MakeFlag(ed, pp, ck, id)
    \/ FromGeneral
    \/ AsUuid
    \/ \E pos \in 1..16, b \in TamperBytes : TamperByte(pos, b)
    \/ FromUuid
    \/ MakeUuidLike
    \/ ParseUuidLike
    \/ \E src \in {"flag", "vflag"} : WrapFlag(src)
    \/ UnwrapFlag

SpecFlag == Init /\ [][FlagNext]_vars

----------------------------------------------------------------------------
(* Generation and reconstruction: operations.                              *)

\* how many blocks a secret is split into (exhaustively explored)
MaxBlocks == 2

\* the blocks a secret is made of
Blocks == {<<65, 66, 67, 68>>, <<69, 70, 71, 72>>, <<65>>, <<>>,
           <<65, 0>>, <<1, 2, 3, 4, 5>>}

\* the least number of 4-byte blocks whose total length exceeds range(0xFF)
TooManyBlocks == (KeyRange \div 4) + 1

\* the passwords handed to generate_flags
SecretPasswords == {<<112, 119>>, <<11>>}

\* the secrets handed to generate_flags
Secrets ==
    SeqsUpTo(Blocks, MaxBlocks) \cup {[i \in 1..TooManyBlocks |-> <<65>>]}

\* every non-empty sequence of distinct indices of 1..n
Orders(n) ==
    {o \in SeqsUpTo(1..n, n) :
        o # <<>> /\ \A i, j \in 1..Len(o) : i # j => o[i] # o[j]}

\* gen = generate_flags(data, password)
GenerateFlags(data, password) ==
    /\ ~gen.done
    /\ gen' = [done |-> TRUE, data |-> data, password |-> password,
               out |-> generate_flags(data, password)]
    /\ rec' = NoRec
    /\ UNCHANGED <<cryptVars, flagVars>>
    /\ UNCHANGED <<storeVars, runVars, pkgVars>>

\* rec = decrypt_flags([flags[i] for i in order]) for the flags of gen
DecryptFlags(order) ==
    /\ gen.done /\ gen.out.err = "none"
    /\ order \in Orders(Len(gen.out.flags))
    /\ LET fs == [i \in 1..Len(order) |-> gen.out.flags[order[i]]]
       IN  rec' = [done |-> TRUE, order |-> order, flags |-> fs,
                   out |-> decrypt_flags(fs)]
    /\ UNCHANGED gen
    /\ UNCHANGED <<cryptVars, flagVars>>
    /\ UNCHANGED <<storeVars, runVars, pkgVars>>

ProtoNext ==
    \/ \E data \in Secrets, password \in SecretPasswords : GenerateFlags(data, password)
    \/ \E order \in Orders(MaxBlocks) : DecryptFlags(order)

SpecProto == Init /\ [][ProtoNext]_vars

----------------------------------------------------------------------------
(* Cipher engine properties.                                               *)

\* the last decrypt undid the last encrypt(data, padding=false)
RoundTripDone == dec.done /\ dec.src = "cipher" /\ enc.done /\ ~enc.padding

EndsWithNull(s) == s # <<>> /\ s[Len(s)] = 0

\* C1 as stated: decrypt(encrypt(D, padding=false)) == D for every aligned D,
\* decrypt being called with keep_null=false.
C1_RoundTripExact ==
    (RoundTripDone /\ ~dec.keep_null)
        => (dec.err = "none" /\ dec.val = enc.data)

\* C1 amended: decrypt(encrypt(D, padding=false)) returns D exactly when D
\* does not end in a zero byte or keep_null=true is passed; with
\* keep_null=false it returns D without its trailing zero bytes.
C1_RoundTrip ==
    RoundTripDone =>
        /\ dec.err = "none"
        /\ (dec.keep_null \/ ~EndsWithNull(enc.data)) => dec.val = enc.data
        /\ ~dec.keep_null => dec.val = rstrip0(enc.data)

\* a round trip over a full block of the longest key whose shifts move bytes
C1_Witness ==
    /\ RoundTripDone /\ ~dec.keep_null
    /\ Len(crypt.keys) >= MaxKeyLen
    /\ Len(enc.data) >= MaxKeyLen
    /\ ~EndsWithNull(enc.data)
    /\ \E j \in 1..Len(crypt.shifts) : crypt.shifts[j] # j - 1
    /\ dec.val = enc.data

IsPermutation(shifts, n) ==
    Len(shifts) = n /\ Range(shifts) = 0..(n - 1)

DistinctKeys(keys, n) ==
    /\ Len(keys) = n
    /\ \A i \in 1..n : keys[i] \in 0..(KeyRange - 1)
    /\ \A i, j \in 1..n : i # j => keys[i] # keys[j]

\* C10 as stated: construction fails for length <= 0 and succeeds for every
\* length N > 0 with N distinct keys in [0, 255) and shifts a permutation of
\* 0..N-1, in every state (also after encrypt and decrypt calls).
C10_EveryPositiveLength ==
    crypt.err # "unset" =>
        /\ cArgs.length <= 0 => crypt.err = "ValueError"
        /\ cArgs.length > 0 =>
              /\ crypt.err = "none"
              /\ DistinctKeys(crypt.keys, cArgs.length)
              /\ IsPermutation(crypt.shifts, cArgs.length)

\* C10 amended: construction fails for length <= 0 and for length > 255, and
\* succeeds for 0 < N <= 255 with N distinct keys in [0, 255) and shifts a
\* permutation of 0..N-1; encrypt and decrypt leave keys and shifts as
\* constructed.
C10_EngineInvariant ==
    crypt.err # "unset" =>
        /\ (cArgs.length <= 0 \/ cArgs.length > KeyRange)
              => crypt.err = "ValueError"
        /\ (cArgs.length > 0 /\ cArgs.length <= KeyRange) =>
              /\ crypt.err = "none"
              /\ DistinctKeys(crypt.keys, cArgs.length)
              /\ IsPermutation(crypt.shifts, cArgs.length)
              /\ crypt = SimpleCrypter(cArgs.password, cArgs.length)

\* an engine of the longest key length that has encrypted and decrypted
C10_Witness ==
    /\ crypt.err = "none"
    /\ Len(crypt.keys) >= MaxKeyLen
    /\ enc.done /\ enc.err = "none"
    /\ dec.done /\ dec.err = "none"

----------------------------------------------------------------------------
(* Flag record and codec properties.                                       *)

\* the positions (1..16) where blocks differs from the serialization of vflag
Tampered ==
    IF blocks = <<>> THEN {}
    ELSE {p \in 1..16 : FlatBytes(blocks)[p] # FlatBytes(as_uuid(vflag))[p]}

\* the byte positions of block4 (signature, challenge_id) and of block5
Block4Positions == {9, 10}
Block5Positions == 11..16

\* C3: after one byte of the serialization of from_general(f) is replaced by
\* a different value, re-parsing through the validating constructor fails.
C3_SingleByteTamperFails ==
    (parsed.cls # "none" /\ Cardinality(Tampered) = 1)
        => parsed.err \in {"ValueError", "ValidationFailed"}

\* C7: from_general(f) never fails for a constructed Flag f; the result keeps
\* f's four fields, carries signature 0xFA and the 6-byte hash of f.
C7_FromGeneral ==
    vflag.cls # "none" =>
        /\ vflag.err = "none"
        /\ vflag.cls = "ValidatableFlag"
        /\ vflag.encrypted_data = flag.encrypted_data
        /\ vflag.partial_password = flag.partial_password
        /\ vflag.decrypted_data_checksum = flag.decrypted_data_checksum
        /\ vflag.challenge_id = flag.challenge_id
        /\ vflag.signature = 250
        /\ Len(vflag.expected_hash) = 6
        /\ vflag.expected_hash = Slice(sha1_digest(identity(flag)), 0, 6)

\* from_general has run on a flag with the largest challenge_id and with
\* partial_password different from the checksum
C7_Witness ==
    /\ vflag.cls = "ValidatableFlag"
    /\ flag.challenge_id = 255
    /\ flag.partial_password # flag.decrypted_data_checksum

\* C8: after block4 or block5 of a valid serialization is altered, widths
\* intact, decoding fails with ValidationFailed.
C8_TamperedEnvelope ==
    (/\ parsed.cls # "none"
     /\ Tampered # {}
     /\ Tampered \subseteq Block4Positions \/ Tampered \subseteq Block5Positions)
        => parsed.err = "ValidationFailed"

\* a decode after the signature byte was altered, one after the challenge_id
\* byte was altered, or one after a byte of expected_hash was altered
C8_Witness ==
    /\ parsed.cls # "none"
    /\ Tampered # {}
    /\ Tampered \subseteq Block4Positions
    /\ parsed.err = "ValidationFailed"

\* the canonical text shape: lowercase hex groups 8-4-4-4-12, hyphen-joined
CanonicalText(t) ==
    /\ Len(t) = 36
    /\ \A i \in 1..36 :
          IF i \in {9, 14, 19, 24} THEN t[i] = "-" ELSE t[i] \in Range(HexLower)

\* C5: for blocks of widths [4,2,2,2,6], make_uuid_like returns canonical
\* text and parse_uuid_like of that text returns the blocks.
C5_CodecRoundTrip ==
    (text.kind = "uuid" /\ Lens(blocks) = <<4, 2, 2, 2, 6>>) =>
        /\ text.err = "none"
        /\ CanonicalText(text.val)
        /\ decoded.kind = "parse" =>
              (decoded.err = "none" /\ decoded.blocks = blocks)

\* a round trip of blocks holding a byte below 0x10 and a byte with a
\* letter digit
C5_Witness ==
    /\ text.kind = "uuid" /\ decoded.kind = "parse"
    /\ \E p \in 1..16 : FlatBytes(blocks)[p] < 16
    /\ \E p \in 1..16 : FlatBytes(blocks)[p] >= 160
    /\ decoded.blocks = blocks

\* the flag wrap_flag was given
Wrapped == IF text.src = "flag" THEN flag ELSE vflag

\* C6 as stated: unwrap_flag(wrap_flag(f)) == f under the dataclass equality,
\* for f a plain Flag or a ValidatableFlag.
C6_UnwrapEqualsFlag ==
    decoded.kind = "unwrap" =>
        (decoded.flag.err = "none" /\ DataclassEq(decoded.flag, Wrapped))

\* C6 amended: unwrap_flag(wrap_flag(f)) == f for a ValidatableFlag f; for a
\* plain Flag f it equals ValidatableFlag.from_general(f), which has f's four
\* fields but is not equal to f (the classes differ).
C6_WrapRoundTrip ==
    decoded.kind = "unwrap" =>
        /\ decoded.flag.err = "none"
        /\ text.src = "vflag" => DataclassEq(decoded.flag, vflag)
        /\ text.src = "flag" =>
              /\ DataclassEq(decoded.flag, from_general(flag))
              /\ ~DataclassEq(decoded.flag, flag)
              /\ decoded.flag.encrypted_data = flag.encrypted_data
              /\ decoded.flag.partial_password = flag.partial_password
              /\ decoded.flag.decrypted_data_checksum = flag.decrypted_data_checksum
              /\ decoded.flag.challenge_id = flag.challenge_id

\* a plain Flag wrapped and unwrapped
C6_Witness ==
    /\ decoded.kind = "unwrap"
    /\ text.src = "flag"
    /\ decoded.flag.cls = "ValidatableFlag"
    /\ decoded.flag.err = "none"

----------------------------------------------------------------------------
(* Generation / reconstruction properties.                                 *)

\* n >= 1 blocks, each non-empty, free of zero bytes and at most 4 bytes
ValidSecret(data) ==
    /\ Len(data) >= 1
    /\ \A i \in 1..Len(data) :
          data[i] # <<>> /\ Len(data[i]) <= 4 /\ 0 \notin Range(data[i])

\* decrypt_flags was given every flag of the generation, in some order
FullOrder == rec.done /\ Len(rec.order) = Len(gen.out.flags)

\* decrypt_flags was given some but not all flags of a generation of >= 2
ProperSubset ==
    rec.done /\ Len(gen.out.flags) >= 2 /\ Len(rec.order) < Len(gen.out.flags)

\* generate_flags returned one flag per block, numbered in input order
FlagsNumbered ==
    /\ gen.out.err = "none"
    /\ Len(gen.out.flags) = Len(gen.data)
    /\ \A i \in 1..Len(gen.out.flags) : gen.out.flags[i].challenge_id = i - 1

\* decrypt_flags returned the original blocks in their original order
Reconstructed == rec.out.err = "none" /\ rec.out.val = gen.data

\* C2 as stated: for any sequence of n >= 1 valid blocks generate_flags
\* returns n flags numbered 0..n-1 and decrypt_flags on them, in any order,
\* returns the original blocks in the original order.
C2_AnyBlockCount ==
    (gen.done /\ ValidSecret(gen.data)) =>
        /\ FlagsNumbered
        /\ FullOrder => Reconstructed

\* C2 amended: the same for 1 <= n <= 63 blocks (4n <= 255, the number of
\* distinct keys the cipher can draw).
C2_EndToEnd ==
    (gen.done /\ ValidSecret(gen.data) /\ 4 * Len(gen.data) <= KeyRange) =>
        /\ FlagsNumbered
        /\ FullOrder => Reconstructed

\* all flags of a generation of MaxBlocks blocks, passed last flag first,
\* one block shorter than 4 bytes
C2_Witness ==
    /\ gen.done /\ ValidSecret(gen.data) /\ Len(gen.data) >= MaxBlocks
    /\ \E i \in 1..Len(gen.data) : Len(gen.data[i]) < 4
    /\ FullOrder /\ rec.order[1] = Len(gen.data)
    /\ Reconstructed

\* C4 as stated: decrypt_flags given a non-empty proper subset of the flags
\* of a generation fails and never returns a list of blocks.
C4_SubsetAlwaysFails ==
    ProperSubset => rec.out.err # "none"

\* the flags decrypt_flags was given, in challenge_id order
RecFlags ==
    sorted_by_challenge_id([i \in 1..Len(rec.order) |-> gen.out.flags[rec.order[i]]])

\* C4 amended: decrypt_flags given a non-empty proper subset never fails with
\* a length mismatch; it fails with ValidationFailed unless the 2-byte
\* additive checksum of every recovered block coincides with the checksum
\* stored in the corresponding flag, and only then returns blocks.
C4_SubsetChecksumGate ==
    ProperSubset =>
        /\ rec.out.err \in {"none", "ValidationFailed"}
        /\ rec.out.err = "none" =>
              /\ Len(rec.out.val) = Len(rec.order)
              /\ \A i \in 1..Len(rec.order) :
                    checksum(rec.out.val[i], 2) = RecFlags[i].decrypted_data_checksum

\* a proper subset that decrypt_flags rejected on the checksum
C4_Witness ==
    /\ ProperSubset /\ ValidSecret(gen.data)
    /\ rec.out.err = "ValidationFailed"

\* C9: the cipher decrypt_flags builds from all flags of a generation, in any
\* input order, has the password, keys and shifts of the cipher generate_flags
\* built, and encrypting the padded secret with it gives the same ciphertext.
C9_SameKeyMaterial ==
    (FullOrder /\ gen.out.err = "none") =>
        /\ rec.out.password = gen.out.password
        /\ rec.out.crypt.keys = gen.out.crypt.keys
        /\ rec.out.crypt.shifts = gen.out.crypt.shifts
        /\ encrypt(rec.out.crypt, Concat(fix_data(gen.data, 4).val), TRUE).val
              = Concat([i \in 1..Len(gen.out.flags) |->
                           gen.out.flags[i].encrypted_data])

\* a reconstruction from all flags of MaxBlocks blocks, passed last first
C9_Witness ==
    /\ FullOrder /\ gen.out.err = "none"
    /\ Len(gen.out.flags) >= MaxBlocks
    /\ rec.order[1] = Len(gen.out.flags)
    /\ rec.out.crypt.err = "none"
    /\ Len(rec.out.crypt.keys) = 4 * Len(gen.out.flags)

----------------------------------------------------------------------------
(* The UUID-like codec on arbitrary input: operations.                     *)

\* the most blocks (or text groups) handed to the codec
MaxCodecBlocks == 6

\* the byte widths of the blocks handed to make_uuid_like
CodecWidths == {2, 4, 6}

\* the byte the blocks handed to make_uuid_like are filled with
CodecFill == {10, 171}

\* the block tuples handed to make_uuid_like: every width profile of 4 to
\* MaxCodecBlocks blocks
CodecBlocks ==
    {[i \in 1..Len(w) |-> [j \in 1..w[i] |-> b]] :
        w \in {v \in SeqsUpTo(CodecWidths, MaxCodecBlocks) : Len(v) >= 4},
        b \in CodecFill}

\* the five groups of a well-formed text (the example of the docstring)
CodecGroups ==
    <<<<"a", "1", "b", "2", "c", "3", "d", "4">>,
      <<"a", "b", "c", "d">>,
      <<"d", "c", "b", "a">>,
      <<"a", "d", "b", "c">>,
      <<"a", "1", "b", "2", "c", "3", "d", "4", "e", "5", "f", "6">>>>

\* what a group of a text handed to parse_uuid_like can be: well-formed, one
\* character short, one character long, starting with a character that is no
\* hex digit, starting with an uppercase digit, or empty
GroupVariants(g) ==
    {g, Tail(g), g \o <<"0">>, <<"g">> \o Tail(g), <<"A">> \o Tail(g), <<>>}

\* the texts handed to parse_uuid_like: five groups, each any variant; the
\* well-formed text with its last group dropped; the well-formed text with
\* further groups appended
CodecTexts ==
    {join("-", <<g1, g2, g3, g4, g5>>) :
        g1 \in GroupVariants(CodecGroups[1]), g2 \in GroupVariants(CodecGroups[2]),
        g3 \in GroupVariants(CodecGroups[3]), g4 \in GroupVariants(CodecGroups[4]),
        g5 \in GroupVariants(CodecGroups[5])}
    \cup {join("-", SubSeq(CodecGroups, 1, 4))}
    \cup {join("-", CodecGroups \o [i \in 1..n |-> CodecGroups[2]]) :
             n \in 1..(MaxCodecBlocks - 5)}

\* text = make_uuid_like(bs)
EncodeBlocks(bs) ==
    /\ text.kind = "none"
    /\ blocks' = bs
    /\ LET r == make_uuid_like(bs)
       IN  text' = [kind |-> "uuid", src |-> "blocks", err |-> r.err, val |-> r.val]
    /\ UNCHANGED <<flag, vflag, tampers, parsed, decoded>>
    /\ UNCHANGED <<cryptVars, protoVars>>
    /\ UNCHANGED <<storeVars, runVars, pkgVars>>

\* decoded = parse_uuid_like(t)
DecodeText(t) ==
    /\ text.kind = "none"
    /\ text' = [kind |-> "uuid", src |-> "input", err |-> "none", val |-> t]
    /\ LET r == parse_uuid_like(t)
       IN  decoded' = [kind |-> "parse", err |-> r.err, blocks |-> r.val,
                       flag |-> NoFlag]
    /\ UNCHANGED <<flag, vflag, blocks, tampers, parsed>>
    /\ UNCHANGED <<cryptVars, protoVars>>
    /\ UNCHANGED <<storeVars, runVars, pkgVars>>

CodecNext ==
    \/ \E bs \in CodecBlocks : EncodeBlocks(bs)
    \/ \E t \in CodecTexts : DecodeText(t)

SpecCodec == Init /\ [][CodecNext]_vars

----------------------------------------------------------------------------
(* Codec acceptance properties.                                            *)

\* five blocks of 4, 2, 2, 2 and 6 bytes
EncodableWidths(bs) ==
    /\ Len(bs) = 5
    /\ Len(bs[1]) = 4 /\ Len(bs[2]) = 2 /\ Len(bs[3]) = 2 /\ Len(bs[4]) = 2
    /\ Len(bs[5]) = 6

\* 36 characters: hyphens at positions 9, 14, 19 and 24, hex digits of
\* either case everywhere else
DecodableText(t) ==
    /\ Len(t) = 36
    /\ \A i \in 1..36 :
          IF i \in {9, 14, 19, 24} THEN t[i] = "-" ELSE t[i] \in hexdigits

\* C11: make_uuid_like returns text exactly for five blocks of widths
\* 4-2-2-2-6 and parse_uuid_like returns blocks exactly for five
\* hyphen-separated groups of 8-4-4-4-12 hex digits of either case; every
\* other input raises ValueError and nothing is returned.
C11_CodecAcceptance ==
    /\ (text.kind = "uuid" /\ text.src = "blocks") =>
          /\ text.err = "none" <=> EncodableWidths(blocks)
          /\ text.err # "none" => (text.err = "ValueError" /\ text.val = <<>>)
    /\ (decoded.kind = "parse" /\ text.src = "input") =>
          /\ decoded.err = "none" <=> DecodableText(text.val)
          /\ decoded.err = "none" => Lens(decoded.blocks) = <<4, 2, 2, 2, 6>>
          /\ decoded.err # "none" =>
                (decoded.err = "ValueError" /\ decoded.blocks = <<>>)

\* a text of five groups of the right widths with an uppercase digit,
\* accepted by parse_uuid_like
C11_Witness ==
    /\ decoded.kind = "parse" /\ text.src = "input"
    /\ decoded.err = "none"
    /\ \E i \in 1..Len(text.val) : text.val[i] = "A"

----------------------------------------------------------------------------
(* Flag layout at generation.                                              *)

\* a block right-padded with zero bytes to exactly 4 bytes
PadTo4(b) == b \o Zeros(4 - Len(b))

\* every block is free of zero bytes and 0 to 4 bytes long
ZeroFreeShort(data) ==
    \A i \in 1..Len(data) : Len(data[i]) <= 4 /\ 0 \notin Range(data[i])

\* the flags of gen laid out over one ciphertext of the padded blocks
LaidOut ==
    LET n == Len(gen.data)
        M == Concat([i \in 1..n |-> PadTo4(gen.data[i])])
        keystream == derive_key(n, gen.password)
        ciphertext == encrypt(SimpleCrypter(keystream, Len(M)), M, TRUE).val
    IN  /\ gen.out.err = "none"
        /\ Len(keystream) = 2 * n
        /\ Len(gen.out.flags) = n
        /\ \A i \in 1..n :
              LET f == gen.out.flags[i]
              IN  /\ f.cls = "Flag" /\ f.err = "none"
                  /\ f.encrypted_data = Slice(ciphertext, 4 * (i - 1), 4 * i)
                  /\ f.partial_password = Slice(keystream, 2 * (i - 1), 2 * i)
                  /\ f.decrypted_data_checksum
                        = <<(SumSeq(gen.data[i]) % 65536) \div 256,
                            SumSeq(gen.data[i]) % 256>>
                  /\ f.challenge_id = i - 1

\* C12: for any sequence of zero-free blocks of 0 to 4 bytes each, empty
\* blocks included, generate_flags pads every block to 4 bytes, encrypts the
\* concatenation with one cipher keyed by the 2n-byte keystream and returns
\* for block i the flag (ciphertext[4i, 4i+4), keystream[2i, 2i+2),
\* big-endian 16-bit byte sum of block i, i).  Stated for 1 to 63 blocks, the
\* block counts for which a cipher of key length 4n exists.
C12_FlagLayout ==
    (/\ gen.done /\ ZeroFreeShort(gen.data)
     /\ Len(gen.data) >= 1 /\ 4 * Len(gen.data) <= KeyRange) => LaidOut

----------------------------------------------------------------------------
(* Preconditions of generation.                                            *)

\* some block holds a zero byte or is longer than 4 bytes
BadBlock(data) ==
    \E i \in 1..Len(data) : 0 \in Range(data[i]) \/ Len(data[i]) > 4

\* C13: generate_flags raises ValueError and returns no flag whenever some
\* block contains a zero byte or is longer than 4 bytes, whatever the other
\* blocks and the password are.
C13_GeneratePreconditions ==
    (gen.done /\ BadBlock(gen.data)) =>
        (gen.out.err = "ValueError" /\ gen.out.flags = <<>>)

\* a secret whose first block is well-formed and whose second block holds a
\* zero byte, rejected
C13_Witness ==
    /\ gen.done /\ Len(gen.data) = 2
    /\ Len(gen.data[1]) = 4 /\ 0 \notin Range(gen.data[1])
    /\ 0 \in Range(gen.data[2])
    /\ gen.out.err = "ValueError"

----------------------------------------------------------------------------
(* Reconstruction from arbitrary flags: operations.                        *)

\* the most flags handed to decrypt_flags at once
MaxGiven == 2

\* the flags of one generation
GenuineFlags == generate_flags(<<<<65, 66, 67, 68>>, <<69, 70, 71, 72>>>>,
                               <<112, 119>>).flags

\* the challenge ids given to the flags handed to decrypt_flags
GivenIds == {0, 1, 2}

\* structurally valid flags handed to decrypt_flags: the genuine flags, and
\* the same with another checksum or another challenge_id
GivenFlags ==
    {Flag(GenuineFlags[k].encrypted_data, GenuineFlags[k].partial_password,
          ck, id) :
        k \in 1..Len(GenuineFlags),
        ck \in {GenuineFlags[1].decrypted_data_checksum,
                GenuineFlags[2].decrypted_data_checksum},
        id \in GivenIds}

\* the flag lists handed to decrypt_flags
GivenLists == SeqsUpTo(GivenFlags, MaxGiven) \ {<<>>}

\* rec = decrypt_flags(fs)
DecryptGiven(fs) ==
    /\ ~rec.done
    /\ rec' = [done |-> TRUE, order |-> <<>>, flags |-> fs,
               out |-> decrypt_flags(fs)]
    /\ UNCHANGED gen
    /\ UNCHANGED <<cryptVars, flagVars>>
    /\ UNCHANGED <<storeVars, runVars, pkgVars>>

GivenNext == \E fs \in GivenLists : DecryptGiven(fs)

SpecGiven == Init /\ [][GivenNext]_vars

----------------------------------------------------------------------------
(* Reconstruction properties on arbitrary flags.                           *)

\* the 4-byte blocks one cipher recovers from the flags in challenge_id order
Recovered(fs) ==
    LET s == sorted_by_challenge_id(fs)
        n == Len(s)
        c == SimpleCrypter(Concat([i \in 1..n |-> s[i].partial_password]), 4 * n)
        d == decrypt(c, Concat([i \in 1..n |-> s[i].encrypted_data]), TRUE).val
    IN  [i \in 1..n |-> SubSeq(d, 4 * i - 3, 4 * i)]

\* the 16-bit byte sum of a block, big-endian
Sum16(b) == <<(SumSeq(b) % 65536) \div 256, SumSeq(b) % 256>>

\* the positions, in challenge_id order, whose stored checksum is not the
\* checksum of the recovered block
Mismatches(fs) ==
    {i \in 1..Len(fs) :
        sorted_by_challenge_id(fs)[i].decrypted_data_checksum
            # Sum16(Recovered(fs)[i])}

\* C14: decrypt_flags returns exactly when the stored checksum of every flag,
\* in challenge_id order, equals the 16-bit byte sum of the block recovered
\* for it; otherwise it raises ValidationFailed and returns no block.  What
\* it returns has one entry per flag, each the recovered block without its
\* trailing zero bytes.
C14_AllOrNothing ==
    rec.done =>
        /\ rec.out.err = "none" <=> Mismatches(rec.flags) = {}
        /\ rec.out.err # "none" =>
              (rec.out.err = "ValidationFailed" /\ rec.out.val = <<>>)
        /\ rec.out.err = "none" =>
              /\ Len(rec.out.val) = Len(rec.flags)
              /\ \A i \in 1..Len(rec.flags) :
                    /\ ~EndsWithNull(rec.out.val[i])
                    /\ rec.out.val[i] = rstrip0(Recovered(rec.flags)[i])

\* two flags of which the first in challenge_id order matches and the second
\* does not: nothing is returned
C14_Witness ==
    /\ rec.done /\ Len(rec.flags) = 2
    /\ Mismatches(rec.flags) = {2}
    /\ rec.out.err = "ValidationFailed" /\ rec.out.val = <<>>

----------------------------------------------------------------------------
(* Input order of reconstruction.                                          *)

\* the flags fs in the order o
Permuted(fs, o) == [i \in 1..Len(o) |-> fs[o[i]]]

\* decrypt_flags gives the outcome of rec for every permutation of its flags
OrderIrrelevant ==
    \A o \in Orders(Len(rec.flags)) :
        Len(o) = Len(rec.flags) =>
            LET r == decrypt_flags(Permuted(rec.flags, o))
            IN  r.err = rec.out.err /\ r.val = rec.out.val

\* no two different flags carry the same challenge_id
UniqueIds(fs) ==
    \A i, j \in 1..Len(fs) :
        fs[i].challenge_id = fs[j].challenge_id => fs[i] = fs[j]

\* C15 as stated: for any structurally valid flags, every permutation of the
\* input gives decrypt_flags the same outcome (the same blocks or the same
\* failure).
C15_AnyFlagsAnyOrder ==
    rec.done => OrderIrrelevant

\* C15 amended: the same for flags of which no two different ones carry the
\* same challenge_id.
C15_OrderIrrelevant ==
    (rec.done /\ UniqueIds(rec.flags)) => OrderIrrelevant

\* the genuine flags passed in descending challenge_id order, with blocks
\* returned
C15_Witness ==
    /\ rec.done /\ Len(rec.flags) = 2 /\ UniqueIds(rec.flags)
    /\ rec.flags[1].challenge_id > rec.flags[2].challenge_id
    /\ rec.out.err = "none"

----------------------------------------------------------------------------
(* Construction of a ValidatableFlag from arbitrary fields: operations.    *)

\* field values handed to the ValidatableFlag constructor besides
\* EncryptedDatas and ChallengeIds
GivenPasswords == {<<9, 8>>, <<9>>}
GivenChecksums == {<<1, 10>>, <<0, 0>>, <<1, 10, 0>>}
GivenSignatures == {VALIDATABLE_FLAG_SIGNATURE, 0, VALIDATABLE_FLAG_SIGNATURE + 1}

\* the expected_hash values handed to the constructor with the other fields:
\* the hash of the fields, another 6 bytes, and the hash one byte short and
\* one byte long
GivenHashes(ed, pp, ck, id) ==
    LET h == hash(Flag(ed, pp, ck, id))
    IN  {h, [i \in 1..6 |-> (h[i] + 1) % 256], Slice(h, 0, 5), h \o <<0>>}

\* vflag = ValidatableFlag(encrypted_data=ed, partial_password=pp,
\*     decrypted_data_checksum=ck, challenge_id=id, expected_hash=eh,
\*     signature=sig)
MakeValidatable(ed, pp, ck, id, eh, sig) ==
    /\ flag.cls = "none" /\ vflag.cls = "none"
    /\ vflag' = ValidatableFlag(ed, pp, ck, id, eh, sig)
    /\ UNCHANGED <<flag, blocks, tampers, parsed, text, decoded>>
    /\ UNCHANGED <<cryptVars, protoVars>>
    /\ UNCHANGED <<storeVars, runVars, pkgVars>>

ConstructNext ==
    \/ \E ed \in EncryptedDatas, pp \in GivenPasswords, ck \in GivenChecksums,
          id \in ChallengeIds, sig \in GivenSignatures :
          \E eh \in GivenHashes(ed, pp, ck, id) :
              MakeValidatable(ed, pp, ck, id, eh, sig)
    \/ AsUuid
    \/ \E pos \in 1..16, b \in TamperBytes : TamperByte(pos, b)
    \/ FromUuid

SpecConstruct == Init /\ [][ConstructNext]_vars

----------------------------------------------------------------------------
(* Construction errors.                                                    *)

\* some width is wrong or challenge_id is outside 0..255
Malformed(f) ==
    \/ Len(f.encrypted_data) # 4
    \/ Len(f.partial_password) # 2
    \/ Len(f.decrypted_data_checksum) # 2
    \/ Len(f.expected_hash) # 6
    \/ f.challenge_id \notin 0..255

\* the signature is not 0xFA or expected_hash is not the hash of the fields
Unsigned(f) ==
    \/ f.signature # 250
    \/ f.expected_hash # Slice(sha1_digest(f.encrypted_data \o f.partial_password
                                            \o <<f.challenge_id>>), 0, 6)

\* the construction of f raised the error the two tiers prescribe
TwoTier(f) ==
    /\ f.err = "ValueError" <=> Malformed(f)
    /\ f.err = "ValidationFailed" <=> (~Malformed(f) /\ Unsigned(f))
    /\ f.err = "none" <=> (~Malformed(f) /\ ~Unsigned(f))

\* C16: constructing a ValidatableFlag raises ValueError exactly when a width
\* is wrong or challenge_id is outside 0..255, whatever the signature and
\* the hash are; otherwise it raises ValidationFailed exactly when the
\* signature is not 0xFA or the hash of the fields is not expected_hash;
\* otherwise it succeeds.  Every ValidatableFlag in existence, constructed
\* directly or from UUID blocks, has the signature and the hash of its fields.
C16_TwoTierErrors ==
    /\ vflag.cls = "ValidatableFlag" => TwoTier(vflag)
    /\ (parsed.cls = "ValidatableFlag" /\ Len(blocks) = 5 /\ Len(blocks[4]) = 2) =>
          /\ parsed.err = "ValueError" <=> Lens(blocks) # <<4, 2, 2, 2, 6>>
          /\ parsed.err # "ValueError" => TwoTier(parsed)
    /\ \A f \in {vflag, parsed} :
          (f.cls = "ValidatableFlag" /\ f.err = "none") => ~Unsigned(f)

\* a construction with a wrong width, a wrong signature and a wrong hash
\* that raised ValueError
C16_Witness ==
    /\ vflag.cls = "ValidatableFlag"
    /\ Len(vflag.encrypted_data) # 4
    /\ vflag.signature # 250
    /\ Unsigned(vflag)
    /\ vflag.err = "ValueError"

----------------------------------------------------------------------------
(* Padded encryption.                                                      *)

\* the smallest multiple of l that is at least n
LeastMultiple(l, n) ==
    CHOOSE m \in n..(n + l) :
        m % l = 0 /\ \A k \in n..(m - 1) : k % l # 0

\* r is d without its trailing zero bytes
Stripped(d, r) ==
    /\ Len(r) <= Len(d)
    /\ \A i \in 1..Len(r) : r[i] = d[i]
    /\ \A i \in (Len(r) + 1)..Len(d) : d[i] = 0
    /\ r # <<>> => r[Len(r)] # 0

\* C18: for a cipher of key length L and any data D, encrypt(D, padding=True)
\* returns the smallest multiple of L that is at least len(D) many bytes;
\* decrypting them with keep_null=True gives D followed by the zero bytes
\* that were added, and with keep_null=False gives D without its trailing
\* zero bytes.
C18_PaddedRoundTrip ==
    (enc.done /\ enc.padding) =>
        /\ enc.err = "none"
        /\ Len(enc.val) = LeastMultiple(cArgs.length, Len(enc.data))
        /\ (dec.done /\ dec.src = "cipher") =>
              /\ dec.err = "none"
              /\ dec.keep_null =>
                    dec.val = enc.data \o Zeros(Len(enc.val) - Len(enc.data))
              /\ ~dec.keep_null => Stripped(enc.data, dec.val)

\* data ending in a zero byte, padded by at least one byte, decrypted with
\* keep_null=False by a cipher of key length MaxKeyLen
C18_Witness ==
    /\ enc.done /\ enc.padding /\ cArgs.length = MaxKeyLen
    /\ EndsWithNull(enc.data) /\ Len(enc.val) > Len(enc.data)
    /\ dec.done /\ dec.src = "cipher" /\ ~dec.keep_null
    /\ Len(dec.val) < Len(enc.data)

----------------------------------------------------------------------------
(* rknait: the flag file and the console operations on it.                 *)

\* text.splitlines(): the pieces between line feeds, without a last empty one
splitlines(line) ==
    IF line = <<>> THEN <<>>
    ELSE LET pieces == split(line, "\n")
         IN  IF pieces[Len(pieces)] = <<>>
             THEN SubSeq(pieces, 1, Len(pieces) - 1)
             ELSE pieces

RECURSIVE strip(_)
\* text.strip() for text whose only white space is the blank
strip(line) ==
    IF line = <<>> THEN line
    ELSE IF line[1] = " " THEN strip(Tail(line))
    ELSE IF line[Len(line)] = " " THEN strip(SubSeq(line, 1, Len(line) - 1))
    ELSE line

\* Interactive._load_flags stopping at nothing: the valid lines are returned
\* and the others skipped
load_flags_skip(f) ==
    IF ~f.exists THEN [err |-> "none", flags |-> <<>>]
    ELSE LET lines == splitlines(f.content)
             flags == [i \in 1..Len(lines) |-> validate_uuid_like_flag(lines[i])]
         IN  [err |-> "none",
              flags |-> SelectSeq(flags, LAMBDA x : x.err = "none")]

\* Interactive._load_flags(): the flags of the file f, or the exception the
\* first line that does not validate raises
load_flags(f) ==
    IF ~f.exists THEN [err |-> "none", flags |-> <<>>]
    ELSE LET lines == splitlines(f.content)
             flags == [i \in 1..Len(lines) |-> validate_uuid_like_flag(lines[i])]
             bad == {i \in 1..Len(lines) : flags[i].err # "none"}
         IN  IF bad # {}
             THEN [err |-> flags[CHOOSE i \in bad : \A j \in bad : i <= j].err,
                   flags |-> <<>>]
             ELSE [err |-> "none", flags |-> flags]

\* Interactive._write_flags(flags): the file after the call
write_flags(flags) ==
    [exists |-> TRUE,
     content |-> join("\n", [i \in 1..Len(flags) |->
                                make_uuid_like_flag(flags[i]).val])]

\* the position of the first flag with the challenge_id of new, 0 if none
solved_index(flags, new) ==
    LET hits == {i \in 1..Len(flags) : flags[i].challenge_id = new.challenge_id}
    IN  IF hits = {} THEN 0 ELSE CHOOSE i \in hits : \A j \in hits : i <= j

\* flags.remove(flags[k])
remove_at(flags, k) ==
    [i \in 1..(Len(flags) - 1) |-> IF i < k THEN flags[i] ELSE flags[i + 1]]

\* Interactive.add_flag() without flags.remove(solved): a confirmed
\* replacement appends the new flag and keeps the old one
add_flag_keepold(f, input, confirm) ==
    LET typed == unwrap_flag(strip(input))
        ld == load_flags(f)
        k == solved_index(ld.flags, typed)
        none == [outcome |-> "none", err |-> "none", write |-> FALSE, flags |-> <<>>]
    IN  IF typed.err = "ValueError"
        THEN [none EXCEPT !.outcome = "not valid"]
        ELSE IF typed.err = "ValidationFailed"
        THEN [none EXCEPT !.outcome = "validation failed"]
        ELSE IF ld.err # "none"
        THEN [none EXCEPT !.outcome = "raised", !.err = ld.err]
        ELSE IF k # 0 /\ DataclassEq(typed, ld.flags[k])
        THEN [none EXCEPT !.outcome = "previously solved"]
        ELSE IF k # 0 /\ ~confirm
        THEN [none EXCEPT !.outcome = "cancelled"]
        ELSE [outcome |-> IF k # 0 THEN "replaced" ELSE "passed",
              err |-> "none", write |-> TRUE,
              flags |-> Append(ld.flags, typed)]

\* Interactive.add_flag() for the typed line input and the answer confirm
\* to the replacement question: the outcome shown, the exception that left
\* the operation, and the flags written (write = FALSE: nothing is written)
add_flag(f, input, confirm) ==
    LET typed == unwrap_flag(strip(input))
        ld == load_flags(f)
        k == solved_index(ld.flags, typed)
        none == [outcome |-> "none", err |-> "none", write |-> FALSE, flags |-> <<>>]
    IN  IF typed.err = "ValueError"
        THEN [none EXCEPT !.outcome = "not valid"]
        ELSE IF typed.err = "ValidationFailed"
        THEN [none EXCEPT !.outcome = "validation failed"]
        ELSE IF ld.err # "none"
        THEN [none EXCEPT !.outcome = "raised", !.err = ld.err]
        ELSE IF k # 0 /\ DataclassEq(typed, ld.flags[k])
        THEN [none EXCEPT !.outcome = "previously solved"]
        ELSE IF k # 0 /\ ~confirm
        THEN [none EXCEPT !.outcome = "cancelled"]
        ELSE [outcome |-> IF k # 0 THEN "replaced" ELSE "passed",
              err |-> "none", write |-> TRUE,
              flags |-> Append(IF k # 0 THEN remove_at(ld.flags, k) ELSE ld.flags,
                               typed)]

\* the most flags written to the file at once
MaxStored == 2

\* the validated flags of the console: the two flags of one generation and
\* the second of them under the challenge_id of the first
StoreFlags ==
    {from_general(GenuineFlags[1]), from_general(GenuineFlags[2]),
     from_general(Flag(GenuineFlags[2].encrypted_data,
                       GenuineFlags[2].partial_password,
                       GenuineFlags[2].decrypted_data_checksum,
                       GenuineFlags[1].challenge_id))}

\* a line that parses but does not validate: a flag text with its last
\* hash digit changed
BadLine(f) ==
    LET t == make_uuid_like_flag(f).val
    IN  SubSeq(t, 1, 35) \o <<IF t[36] = "0" THEN "1" ELSE "0">>

\* the files the console is started on besides a missing one: a valid line
\* followed by a line feed, a valid line between or after lines that do not
\* validate or parse, and a blank line between two valid lines
StoredFiles ==
    LET t(k) == make_uuid_like_flag(from_general(GenuineFlags[k])).val
        b == BadLine(from_general(GenuineFlags[2]))
    IN  {[exists |-> TRUE, content |-> c] :
            c \in {t(1) \o <<"\n">>,
                   t(1) \o <<"\n">> \o b,
                   b \o <<"\n">> \o t(1),
                   t(1) \o <<"\n">> \o SubSeq(t(2), 1, 35),
                   t(1) \o <<"\n", "\n">> \o t(2)}}

\* the lines typed to add_flag: the wrapped store flags, one of them followed
\* by a blank, one with a changed hash digit, one without the wrapper
TypedLines ==
    {wrap_flag(f).val : f \in StoreFlags}
    \cup {wrap_flag(from_general(GenuineFlags[1])).val \o <<" ">>,
          Wrapper \o BadLine(from_general(GenuineFlags[1])) \o <<"}">>,
          make_uuid_like_flag(from_general(GenuineFlags[1])).val}

\* the console started on a missing file or on one of the stored files
StoreInit ==
    /\ InitAnura /\ InitRunner /\ InitBuilder
    /\ file \in {NoFile} \cup StoredFiles
    /\ saved = NoSaved
    /\ loaded = NoLoaded
    /\ console = NoConsole
    /\ asked = NoAsked

\* self._write_flags(flags), before any console operation
WriteFlags(flags) ==
    /\ ~saved.done /\ console.op = "none"
    /\ file' = write_flags(flags)
    /\ saved' = [done |-> TRUE, flags |-> flags]
    /\ loaded' = NoLoaded
    /\ console' = NoConsole
    /\ UNCHANGED asked
    /\ UNCHANGED <<cryptVars, flagVars, protoVars, runVars, pkgVars>>

\* loaded = self._load_flags()
LoadFlags ==
    /\ ~loaded.done
    /\ LET r == load_flags(file)
       IN  loaded' = [done |-> TRUE, err |-> r.err, flags |-> r.flags]
    /\ UNCHANGED <<file, saved, console, asked>>
    /\ UNCHANGED <<cryptVars, flagVars, protoVars, runVars, pkgVars>>

\* self.add_flag() with the line input typed and the answer confirm to the
\* replacement question, which is asked only when a flag with the
\* challenge_id but other data is in the file
AddFlagAnswer(input, confirm) ==
    \E r \in {add_flag(file, input, confirm)} :
        /\ console' = [op |-> "add", outcome |-> r.outcome,
                       err |-> r.err, result |-> <<>>]
        /\ IF r.write
           THEN /\ file' = write_flags(r.flags)
                /\ saved' = [done |-> TRUE, flags |-> r.flags]
                /\ loaded' = NoLoaded
           ELSE /\ UNCHANGED <<file, saved>>
                /\ loaded' =
                      IF r.outcome \in {"not valid", "validation failed"}
                      THEN loaded
                      ELSE LET ld == load_flags(file)
                           IN  [done |-> TRUE, err |-> ld.err,
                                flags |-> ld.flags]
        /\ UNCHANGED <<cryptVars, flagVars, protoVars, runVars, pkgVars>>

\* choice 1: self.add_flag() with the line input typed
AddFlag(input) ==
    /\ \E confirm \in BOOLEAN : AddFlagAnswer(input, confirm)
    /\ UNCHANGED asked

\* choice 2: self.decrypt()
Decrypt ==
    LET ld == load_flags(file)
        r == decrypt_flags(ld.flags)
        none == [op |-> "decrypt", outcome |-> "none", err |-> "none",
                 result |-> <<>>]
    IN  /\ loaded' = [done |-> TRUE, err |-> ld.err, flags |-> ld.flags]
        /\ console' =
              IF ld.err # "none"
              THEN [none EXCEPT !.outcome = "raised", !.err = ld.err]
              ELSE IF ld.flags = <<>>
              THEN [none EXCEPT !.outcome = "done none"]
              ELSE IF r.err = "ValidationFailed"
              THEN [none EXCEPT !.outcome = "decrypt failed"]
              ELSE IF r.err # "none"
              THEN [none EXCEPT !.outcome = "raised", !.err = r.err]
              ELSE [none EXCEPT !.outcome = "hooray", !.result = Concat(r.val)]
        /\ UNCHANGED <<file, saved, asked>>
        /\ UNCHANGED <<cryptVars, flagVars, protoVars, runVars, pkgVars>>

\* choice 3: self.show_progress()
ShowProgress ==
    LET ld == load_flags(file)
        none == [op |-> "list", outcome |-> "none", err |-> "none",
                 result |-> <<>>]
    IN  /\ loaded' = [done |-> TRUE, err |-> ld.err, flags |-> ld.flags]
        /\ console' =
              IF ld.err # "none"
              THEN [none EXCEPT !.outcome = "raised", !.err = ld.err]
              ELSE IF ld.flags = <<>>
              THEN [none EXCEPT !.outcome = "done none"]
              ELSE [none EXCEPT !.outcome = "solved",
                                !.result = [i \in 1..Len(ld.flags) |->
                                               ld.flags[i].challenge_id]]
        /\ UNCHANGED <<file, saved, asked>>
        /\ UNCHANGED <<cryptVars, flagVars, protoVars, runVars, pkgVars>>

StoreNext ==
    \/ \E flags \in SeqsUpTo(StoreFlags, MaxStored) : WriteFlags(flags)
    \/ LoadFlags
    \/ \E input \in TypedLines : AddFlag(input)
    \/ Decrypt
    \/ ShowProgress

SpecStore == StoreInit /\ [][StoreNext]_vars

----------------------------------------------------------------------------
(* Flag store properties.                                                  *)

\* the text of the file has a line that is no valid flag text
BadStore(f) ==
    /\ f.exists
    /\ \E i \in 1..Len(splitlines(f.content)) :
          translate_from_uuid_like(splitlines(f.content)[i]).err # "none"

\* the last console operation went as far as loading the file
Loading ==
    \/ console.op \in {"decrypt", "list"}
    \/ console.op = "add" /\ console.outcome \notin {"not valid", "validation failed"}

\* _load_flags raises on a file with a bad line and returns no flag, the
\* console operations that load it leave with that exception, and a load
\* after _write_flags(F) returns F
LoadsAllOrNothing ==
    /\ (loaded.done /\ BadStore(file)) =>
          (loaded.err \in {"ValueError", "ValidationFailed"} /\ loaded.flags = <<>>)
    /\ (Loading /\ BadStore(file)) =>
          (console.outcome = "raised"
              /\ console.err \in {"ValueError", "ValidationFailed"})
    /\ (saved.done /\ loaded.done) =>
          (loaded.err = "none" /\ loaded.flags = saved.flags)

\* a console operation on a file with a bad line leaves the file as it is
BadStoreKept ==
    (BadStore(file) /\ console'.op # "none") => file' = file

\* C17: when a line of the file does not parse or validate, _load_flags
\* raises and returns no flag, and add_flag, decrypt and show_progress, once
\* they load the file, leave with that exception and the file as it was;
\* after _write_flags(F), _load_flags returns exactly F, in the same order.
C17_StoreAllOrNothing == []LoadsAllOrNothing /\ [][BadStoreKept]_vars

\* a file whose first line validates and whose second does not, loaded by
\* add_flag for a valid new flag: the operation raised
C17_Witness ==
    /\ BadStore(file)
    /\ translate_from_uuid_like(splitlines(file.content)[1]).err = "none"
    /\ console.op = "add" /\ console.outcome = "raised"

----------------------------------------------------------------------------
(* peson/runner.py: the production environment runner.                     *)

\* how many run() calls pass the running check
MaxRuns == 1

\* a process ends by itself only if its thread started fewer than this many
MaxStarts == 2

\* the configured pre-run programs of the challenges, in order: their
\* PrerunProgram.daemon
PrerunPrograms == <<[daemon |-> FALSE], [daemon |-> TRUE]>>

\* the supervisor threads MaxRuns calls of run() start
MaxThreads == Len(PrerunPrograms) * MaxRuns

\* Runner.run: the check of the running flag
run_check(r) == IF r THEN "RuntimeError" ELSE "none"

\* Runner.stop raising never (the check of the running flag left out)
stop_check_never(r) == "none"

\* Runner.stop: the check of the running flag
stop_check(r) == IF ~r THEN "RuntimeError" ELSE "none"

\* the loop condition of task without "process is None"
loop_test_running(status, r) == r

\* the loop condition of task: process is None or self._running
\* (the status "none" stands for process = None)
loop_test(status, r) == status = "none" \/ r

\* list.remove(x): the list without the first element equal to x
list_remove(list, x) ==
    LET k == CHOOSE i \in 1..Len(list) :
                 list[i] = x /\ \A j \in 1..(i - 1) : list[j] # x
    IN  [i \in 1..(Len(list) - 1) |-> IF i < k THEN list[i] ELSE list[i + 1]]

\* how many run() calls passed the running check
RunsCalled == Cardinality({i \in 1..Len(history) : history[i] = "run"})

\* runner.run(entrypoint), up to the call of _run_programs
Run(entrypoint) ==
    /\ main.pc = "idle"
    /\ IF run_check(running) # "none"
       THEN /\ lastCall' = [op |-> "run", err |-> run_check(running)]
            /\ UNCHANGED <<running, main, history>>
       ELSE /\ RunsCalled < MaxRuns
            /\ running' = TRUE
            /\ main' = [pc |-> "run_programs", entrypoint |-> entrypoint, i |-> 1]
            /\ history' = Append(history, "run")
            /\ lastCall' = NoCall
    /\ UNCHANGED <<processes, threads, thr>>
    /\ UNCHANGED <<cryptVars, flagVars, protoVars, storeVars, pkgVars>>

\* _run_programs: one turn of the loop, thread = self._run_program(...) and
\* self._threads.append(thread)
RunProgram ==
    /\ main.pc = "run_programs" /\ main.i <= Len(PrerunPrograms)
    /\ thr' = Append(thr, [program |-> main.i, run |-> RunsCalled, pc |-> "test",
                           status |-> "none", starts |-> 0])
    /\ threads' = Append(threads, Len(thr) + 1)
    /\ main' = [main EXCEPT !.i = main.i + 1]
    /\ UNCHANGED <<running, processes, lastCall, history>>
    /\ UNCHANGED <<cryptVars, flagVars, protoVars, storeVars, pkgVars>>

\* _run_programs returns: run() returns, or goes on to _run_entrypoint
RunProgramsDone ==
    /\ main.pc = "run_programs" /\ main.i > Len(PrerunPrograms)
    /\ IF main.entrypoint
       THEN /\ main' = [main EXCEPT !.pc = "entrypoint"]
            /\ UNCHANGED lastCall
       ELSE /\ main' = NoMain
            /\ lastCall' = [op |-> "run", err |-> "none"]
    /\ UNCHANGED <<running, processes, threads, thr, history>>
    /\ UNCHANGED <<cryptVars, flagVars, protoVars, storeVars, pkgVars>>

\* runner.stop() by the caller, or self.stop() of _run_entrypoint once the
\* entrypoint process has ended: up to the call of _stop_programs
Stop ==
    /\ main.pc \in {"idle", "entrypoint"}
    /\ IF stop_check(running) # "none"
       THEN /\ lastCall' = [op |-> IF main.pc = "idle" THEN "stop" ELSE "run",
                            err |-> stop_check(running)]
            /\ main' = NoMain
            /\ UNCHANGED <<running, history>>
       ELSE /\ running' = FALSE
            /\ main' = [main EXCEPT !.pc = "stop_programs", !.i = 1]
            /\ history' = Append(history, "stop")
            /\ lastCall' = NoCall
    /\ UNCHANGED <<processes, threads, thr>>
    /\ UNCHANGED <<cryptVars, flagVars, protoVars, storeVars, pkgVars>>

\* _stop_programs: one turn of "for process in self._processes", which takes
\* the element at the iterator's index of the list as it is now;
\* process.kill() of a process that has ended does nothing
KillProcess ==
    /\ main.pc = "stop_programs" /\ main.i <= Len(processes)
    /\ thr' = [thr EXCEPT ![processes[main.i]].status =
                  IF @ = "running" THEN "ended" ELSE @]
    /\ main' = [main EXCEPT !.i = main.i + 1]
    /\ UNCHANGED <<running, processes, threads, lastCall, history>>
    /\ UNCHANGED <<cryptVars, flagVars, protoVars, storeVars, pkgVars>>

\* _stop_programs: the loop is over, self._threads.clear(), and stop()
\* (and with it a run() that called it) returns
StopProgramsDone ==
    /\ main.pc = "stop_programs" /\ main.i > Len(processes)
    /\ threads' = <<>>
    /\ lastCall' = [op |-> IF main.entrypoint THEN "run" ELSE "stop", err |-> "none"]
    /\ main' = NoMain
    /\ UNCHANGED <<running, processes, thr, history>>
    /\ UNCHANGED <<cryptVars, flagVars, protoVars, storeVars, pkgVars>>

\* task of thread t: while process is None or self._running
TaskTest(t) ==
    /\ t <= Len(thr) /\ thr[t].pc = "test"
    /\ thr' = [thr EXCEPT ![t].pc =
                  IF loop_test(thr[t].status, running) THEN "popen" ELSE "done"]
    /\ UNCHANGED <<running, processes, threads, main, lastCall, history>>
    /\ UNCHANGED <<cryptVars, flagVars, protoVars, storeVars, pkgVars>>

\* task of thread t: process = subprocess.Popen(*args, **kwargs) and
\* self._processes.append(process); nothing but the thread can reach the
\* process before it is in the list, so the two lines are one step
TaskPopen(t) ==
    /\ t <= Len(thr) /\ thr[t].pc = "popen"
    /\ processes' = Append(processes, t)
    /\ thr' = [thr EXCEPT ![t].pc = "wait", ![t].status = "running",
                          ![t].starts = @ + 1]
    /\ UNCHANGED <<running, threads, main, lastCall, history>>
    /\ UNCHANGED <<cryptVars, flagVars, protoVars, storeVars, pkgVars>>

\* task of thread t: process.wait() returns, the process has ended, and
\* self._processes.remove(process); then "if not daemon: break" or the next
\* turn of the loop
TaskWait(t) ==
    /\ t <= Len(thr) /\ thr[t].pc = "wait"
    /\ thr[t].status = "ended"
    /\ processes' = list_remove(processes, t)
    /\ thr' = [thr EXCEPT ![t].pc =
                  IF PrerunPrograms[thr[t].program].daemon THEN "test" ELSE "done"]
    /\ UNCHANGED <<running, threads, main, lastCall, history>>
    /\ UNCHANGED <<cryptVars, flagVars, protoVars, storeVars, pkgVars>>

\* the process thread t holds ends by itself
ProcessExit(t) ==
    /\ t <= Len(thr) /\ thr[t].status = "running"
    /\ thr[t].starts < MaxStarts
    /\ thr' = [thr EXCEPT ![t].status = "ended"]
    /\ UNCHANGED <<running, processes, threads, main, lastCall, history>>
    /\ UNCHANGED <<cryptVars, flagVars, protoVars, storeVars, pkgVars>>

\* the steps of the caller inside run() and stop()
MainStep == RunProgram \/ RunProgramsDone \/ KillProcess \/ StopProgramsDone

\* the steps of the supervisor thread t
TaskStep(t) ==
    TaskTest(t) \/ TaskPopen(t) \/ TaskWait(t)

RunnerNext ==
    \/ \E entrypoint \in BOOLEAN : Run(entrypoint)
    \/ Stop
    \/ MainStep
    \/ \E t \in 1..MaxThreads : TaskStep(t)
    \/ \E t \in 1..MaxThreads : ProcessExit(t)

SpecRunner == Init /\ [][RunnerNext]_vars

\* the caller goes on inside a call and every thread that can step does
SpecRunnerFair ==
    /\ SpecRunner
    /\ WF_vars(MainStep)
    /\ \A t \in 1..MaxThreads : WF_vars(TaskStep(t))

----------------------------------------------------------------------------
(* The run/stop protocol of the runner.                                    *)

\* the calls that passed their check are run, stop, run, stop, ...
Alternates ==
    \A i \in 1..Len(history) : history[i] = IF i % 2 = 1 THEN "run" ELSE "stop"

\* the environment is running exactly after a run() that no stop() followed
RunningAfterRun == running <=> Len(history) % 2 = 1

\* a step in which a call raised RuntimeError
Refused == lastCall' # lastCall /\ lastCall'.err = "RuntimeError"

\* a refused call was a run() while running or a stop() while not running, and
\* it leaves the flag, the lists and the record of the accepted calls alone
RefusedLeaves ==
    Refused =>
        /\ UNCHANGED <<running, processes, threads, history>>
        /\ lastCall'.op = "run" => running
        /\ lastCall'.op = "stop" => ~running

\* a call passes its check only in the state it is meant for, and sets the flag
Accepted ==
    history' # history =>
        \E op \in {"run", "stop"} :
            /\ history' = Append(history, op)
            /\ running = (op = "stop")
            /\ running' = (op = "run")

\* nothing but a call that passed its check changes the flag
FlagByCalls == running' # running => history' # history

\* C20: run() while running and stop() while not running raise RuntimeError
\* and leave the running flag and the process and thread lists unchanged; a
\* successful run() sets running, a successful stop() clears it, so the
\* successful calls alternate, starting with run().
C20_RunStopProtocol ==
    /\ [](Alternates /\ RunningAfterRun)
    /\ [][RefusedLeaves /\ Accepted /\ FlagByCalls]_vars

\* after a run() and a stop() that passed, a second stop() was refused while
\* a process is still in the list
C20_Witness ==
    /\ history = <<"run", "stop">>
    /\ lastCall = [op |-> "stop", err |-> "RuntimeError"]
    /\ ~running
    /\ processes # <<>>

----------------------------------------------------------------------------
(* The supervision of the pre-run programs.                                *)

IsDaemon(t) == PrerunPrograms[thr[t].program].daemon

\* program k has been started for the r-th run()
Started(k, r) ==
    \E t \in 1..Len(thr) :
        thr[t].program = k /\ thr[t].run = r /\ thr[t].starts >= 1

\* no program has two supervisor threads in one run(), and the thread of a
\* program that is no daemon starts it at most once
OncePerRun ==
    /\ \A t, u \in 1..Len(thr) :
           (thr[t].program = thr[u].program /\ thr[t].run = thr[u].run) => t = u
    /\ \A t \in 1..Len(thr) : ~IsDaemon(t) => thr[t].starts <= 1

\* the process of the daemon thread t has ended while the environment runs,
\* and the thread is not over (it ended in an earlier stop of the environment)
DaemonDown(t) ==
    /\ t <= Len(thr) /\ IsDaemon(t)
    /\ thr[t].status = "ended" /\ thr[t].pc # "done"
    /\ running

\* the environment was stopped, or thread t holds a process that runs
DaemonUp(t) == ~running \/ (t <= Len(thr) /\ thr[t].status = "running")

\* C19: after run() every configured pre-run program is started at least
\* once; a program that is no daemon is started exactly once per run(); a
\* daemon is started again each time its process ends, as long as the
\* environment is running.
C19_Supervision ==
    /\ []OncePerRun
    /\ \A r \in 1..MaxRuns : \A k \in 1..Len(PrerunPrograms) :
           (RunsCalled >= r) ~> Started(k, r)
    /\ \A t \in 1..MaxThreads : DaemonDown(t) ~> DaemonUp(t)

\* while the environment runs, the daemon has been started a second time and
\* the other program, started once, is over
C19_Witness ==
    /\ running
    /\ \E t \in 1..Len(thr) :
           IsDaemon(t) /\ thr[t].starts = 2 /\ thr[t].status = "running"
    /\ \E t \in 1..Len(thr) :
           ~IsDaemon(t) /\ thr[t].starts = 1 /\ thr[t].pc = "done"

----------------------------------------------------------------------------
(* rknait: the add-flag interactions of a console started on no flags.     *)

\* the console started on a missing or an empty flag file
ConsoleInit ==
    /\ InitAnura /\ InitRunner /\ InitBuilder
    /\ file \in {NoFile, [exists |-> TRUE, content |-> <<>>]}
    /\ saved = NoSaved
    /\ loaded = NoLoaded
    /\ console = NoConsole
    /\ asked = NoAsked

\* one add-flag interaction: the line input is typed, and confirm is what the
\* player answers if the replacement question comes
Interaction(input, confirm) ==
    /\ AddFlagAnswer(input, confirm)
    /\ asked' = [input |-> input, confirm |-> confirm]

ConsoleNext ==
    \E input \in TypedLines : \E confirm \in BOOLEAN : Interaction(input, confirm)

SpecConsole == ConsoleInit /\ [][ConsoleNext]_vars

\* every line of the file is a valid ValidatableFlag, and no two lines have
\* the same challenge_id
OnePerChallenge ==
    LET stored == load_flags(file)
    IN  /\ stored.err = "none"
        /\ \A i \in 1..Len(stored.flags) :
               /\ stored.flags[i].cls = "ValidatableFlag"
               /\ stored.flags[i].err = "none"
        /\ \A i, j \in 1..Len(stored.flags) :
               stored.flags[i].challenge_id = stored.flags[j].challenge_id => i = j

\* what one interaction does to the file, told from the line typed, the
\* answer and the flags the file held
InteractionEffect ==
    LET typed == unwrap_flag(strip(asked'.input))
        old == load_flags(file).flags
        new == load_flags(file').flags
        same == {k \in 1..Len(old) : old[k].challenge_id = typed.challenge_id}
        identical == \E k \in same : DataclassEq(old[k], typed)
    IN  /\ typed.err \in {"ValueError", "ValidationFailed"} => file' = file
        /\ (typed.err = "none" /\ identical) => file' = file
        /\ (typed.err = "none" /\ same # {} /\ ~identical /\ ~asked'.confirm) =>
               file' = file
        /\ (typed.err = "none" /\ same # {} /\ ~identical /\ asked'.confirm) =>
               \E k \in same : new = Append(remove_at(old, k), typed)

\* C21: from an empty or missing flag file, after any add-flag interactions
\* the file holds at most one flag per challenge_id and every line of it is
\* a valid ValidatableFlag; a line unwrap_flag rejects, an identical flag
\* typed again and a declined replacement leave the file unchanged; a
\* confirmed replacement removes the old flag of the challenge_id and appends
\* the new one.
C21_ConsoleStore == []OnePerChallenge /\ [][InteractionEffect]_vars

\* a confirmed replacement in a file of two flags
C21_Witness ==
    /\ console.outcome = "replaced" /\ asked.confirm
    /\ Len(load_flags(file).flags) = 2

----------------------------------------------------------------------------
(* The shutdown of the runner.                                             *)

\* stop() has returned and run() was not called since
StopReturned ==
    /\ history # <<>> /\ history[Len(history)] = "stop"
    /\ main.pc = "idle"

\* no process of a pre-run program is running
AllEnded == \A t \in 1..Len(thr) : thr[t].status # "running"

\* a step taken after stop() returned starts no process
NoneStarted ==
    StopReturned => \A t \in 1..Len(thr) : thr'[t].starts = thr[t].starts

\* C23: for every interleaving of stop() with the supervisor threads, once
\* stop() has returned every process started for a pre-run program has been
\* killed or has exited, no process is started for any program until run()
\* is called again, and every supervisor thread eventually terminates.
C23_Shutdown ==
    /\ [](StopReturned => AllEnded)
    /\ [][NoneStarted]_vars
    /\ \A t \in 1..MaxThreads :
           (StopReturned /\ t <= Len(thr)) ~> (t <= Len(thr) /\ thr[t].pc = "done")

----------------------------------------------------------------------------
(* peson/builder.py and peson/conf.py: the package installer.              *)

\* how many _install_packages calls the user of one builder makes
MaxCalls == 2

\* the acyclic dependency graphs: a package requires packages of higher
\* number only
Graphs ==
    {g \in [Packages -> SUBSET Packages] : \A p \in Packages : \A q \in g[p] : q > p}

\* one builder, with the packages of any acyclic graph
InstallerInit ==
    /\ InitAnura /\ InitStore /\ InitRunner
    /\ required \in Graphs
    /\ InitInstalled

\* a call frame of _install_packages(packages): line 36, packages =
\* packages.difference(self._installed_packages), taken once before the loop
install_frame(packages) ==
    [rest |-> packages \ installed_packages, cur |-> 0]

\* self._install_packages(packages) called by build or configure
InstallPackages(packages) ==
    /\ frames = <<>>
    /\ calls < MaxCalls
    /\ calls' = calls + 1
    /\ frames' = <<install_frame(packages)>>
    /\ UNCHANGED <<required, installed_packages, installs>>
    /\ UNCHANGED <<cryptVars, flagVars, protoVars, storeVars, runVars>>

\* one turn of "for package in packages" begins: the set gives its elements
\* in an order the code does not fix; required = package.required_packages()
\* and the call self._install_packages(required)
TakePackage(package) ==
    /\ frames # <<>>
    /\ frames[Len(frames)].cur = 0
    /\ package \in frames[Len(frames)].rest
    /\ frames' = Append([frames EXCEPT ![Len(frames)] =
                            [rest |-> @.rest \ {package}, cur |-> package]],
                        install_frame(required[package]))
    /\ UNCHANGED <<required, installed_packages, installs, calls>>
    /\ UNCHANGED <<cryptVars, flagVars, protoVars, storeVars, runVars>>

\* the loop of the innermost call is over: _install_packages returns
Return ==
    /\ frames # <<>>
    /\ frames[Len(frames)] = [rest |-> {}, cur |-> 0]
    /\ frames' = SubSeq(frames, 1, Len(frames) - 1)
    /\ UNCHANGED <<required, installed_packages, installs, calls>>
    /\ UNCHANGED <<cryptVars, flagVars, protoVars, storeVars, runVars>>

\* the turn goes on after the call for the required packages returned:
\* package.install() and self._installed_packages.add(package)
Install ==
    /\ frames # <<>>
    /\ frames[Len(frames)].cur # 0
    /\ installs' = [installs EXCEPT ![frames[Len(frames)].cur] = @ + 1]
    /\ installed_packages' = installed_packages \cup {frames[Len(frames)].cur}
    /\ frames' = [frames EXCEPT ![Len(frames)].cur = 0]
    /\ UNCHANGED <<required, calls>>
    /\ UNCHANGED <<cryptVars, flagVars, protoVars, storeVars, runVars>>

InstallerNext ==
    \/ \E packages \in SUBSET Packages : InstallPackages(packages)
    \/ \E package \in Packages : TakePackage(package)
    \/ Return
    \/ Install

SpecInstaller == InstallerInit /\ [][InstallerNext]_vars

----------------------------------------------------------------------------
(* Installer properties.                                                   *)

\* C22: for one builder and any acyclic dependency graph, across any
\* sequence of _install_packages calls install() of each package is invoked
\* at most once, also when a requested package is a requirement of another
\* requested package.
C22_InstallOnce == \A p \in Packages : installs[p] <= 1

====
